---- MODULE Spec2Model ----
(***************************************************************************)
(* Gallery ordering / soft-delete model of the wedding-invitation site.    *)
(*                                                                         *)
(* State: the MySQL `gallery` table, its AUTO_INCREMENT counter, the files *)
(* under the uploads directory, a wall clock with one-second resolution,   *)
(* and one record per in-flight HTTP request (handler position, request    *)
(* inputs, handler locals, response).  Every `await pool.query(...)` and   *)
(* every awaited file-system call is one atomic step, so that concurrent   *)
(* requests interleave exactly at the handlers' await points.              *)
(*                                                                         *)
(* The site specifications add the `guestbook` and `contacts` tables, the  *)
(* admin login and health handlers, the two uploads file servers (path     *)
(* sanitising and resolution), the browser's fetchWithCache map and the    *)
(* lazily loaded gallery and guestbook sections of the page.               *)
(***************************************************************************)
EXTENDS Integers, Sequences, FiniteSets, TLC

(***************************************************************************)
(* Bounds of the model.                                                    *)
(***************************************************************************)
\* number of requests the clients of the concurrent specification send
MaxReqs == 2
\* number of requests the client of the sequential specification sends
MaxSeqReqs == 2
\* last second of the wall clock
MaxTime == 2
\* number of requests the admin of the ordering specification sends
MaxOrderReqs == 2
\* number of numbered gallery rows the ordering specification starts from
OrderRows == 10
\* number of requests the client of the site specification sends
MaxSiteReqs == 2
\* number of page loads of the read specification
MaxLiveReqs == 2
\* longest path segment of a request for an uploaded file
MaxSegLen == 3
\* number of requests for uploaded files
MaxUploadsReqs == 1
\* number of requests the two admins of the replacement specification send
MaxRaceReqs == 2
\* number of requests for files served by the plain handler
MaxServeReqs == 1
\* number of interval timers the page creates
MaxTimers == 2
\* number of refresh requests the interval timers issue
MaxRefreshes == 2
\* number of requests the admin of the session specification sends
MaxAdminReqs == 2
\* number of fetchWithCache calls
MaxFetches == 3
\* number of advances of the browser's clock
MaxClockTicks == 3

(***************************************************************************)
(* Values.                                                                 *)
(***************************************************************************)
\* SQL NULL (order_index of a main row, deleted_at of a live row)
NULL == -1
\* an absent / empty filename in a request body or a row
NoName == 0
\* 'images/main_cover.jpg', the fixed name of an admin main upload
MainCover == 1
\* some other client-chosen filename, e.g. '2024/photo.jpg'
OtherName == 2
\* first of the random names `images/gallery_<ts>_<rand>.jpg`
GenBase == 10
\* the names `images/<timestamp>.jpg` are StampBase + the time
StampBase == 100
\* LIMIT 50 of the guestbook read
GUESTBOOK_LIMIT == 50
\* const MAX_FILE_SIZE = 50 * 1024 * 1024
MAX_FILE_SIZE == 52428800

\* const CACHE_DURATION = 5 * 60 * 1000
CACHE_DURATION == 300000

Procs == {"r1", "r2"}
SeqProcs == {"r1"}

\* filenames a client may send to POST /api/gallery
ClientNames == {NoName, MainCover, OtherName}
\* image_type values a client may send ("omitted" = field absent)
ImageTypes == {"main", "gallery", "omitted", "bogus"}

\* urls the page sections fetch through fetchWithCache
Urls == {"/api/gallery", "/api/guestbook"}

\* apiCache.get(url) === undefined
NoEntry == [present |-> FALSE, data |-> "", timestamp |-> 0]

\* the lazily loaded sections of the page
Sections == {"gallery", "guestbook"}

\* a section as mounted: useState(false) for loading and hasLoaded,
\* shouldLoad of the intersection observer, the focus and blur listeners
\* and the `interval` variable of the refresh effect, the interval timers
\* the browser holds and the number created, the fetch calls in flight
\* and the numbers started, and whether the last refresh to end had failed
NoSection ==
  [mounted |-> TRUE, shouldLoad |-> FALSE, hasLoaded |-> FALSE,
   loading |-> FALSE, listening |-> FALSE, interval |-> NULL, timers |-> {},
   timerIds |-> 0, calls |-> <<>>, initialFetches |-> 0, refreshes |-> 0,
   refreshFailed |-> FALSE]

VARIABLES gallery, nextId, nextGen, files, now, started, pc, req, loc, resp,
          guestbook, gbNextId, contacts, apiCache, clock, sessions,
          focused, section

\* the guestbook and contacts tables, the session cookies issued, and the
\* browser: its cache and clock, the window's focus and the page sections
site == <<guestbook, gbNextId, contacts, apiCache, clock, sessions, focused,
         section>>

vars == <<gallery, nextId, nextGen, files, now, started, pc, req, loc, resp,
          site>>

(***************************************************************************)
(* Rows and queries.                                                       *)
(***************************************************************************)
Row(id, fn, ty, oi, ca, da) ==
  [id |-> id, filename |-> fn, image_type |-> ty, order_index |-> oi,
   created_at |-> ca, deleted_at |-> da]

\* WHERE image_type = "main" AND deleted_at IS NULL
LiveMains(g) == {r \in g : r.image_type = "main" /\ r.deleted_at = NULL}

\* WHERE image_type = "main"
AllMains(g) == {r \in g : r.image_type = "main"}

\* WHERE image_type = "gallery" AND deleted_at IS NULL
LiveGallery(g) == {r \in g : r.image_type = "gallery" /\ r.deleted_at = NULL}

\* WHERE image_type = "gallery"
AllGallery(g) == {r \in g : r.image_type = "gallery"}

\* SQL MAX(order_index): NULLs are skipped, the result is NULL on no value
SqlMax(rows) ==
  LET vals == {r.order_index : r \in {x \in rows : x.order_index # NULL}}
  IN IF vals = {} THEN NULL ELSE CHOOSE m \in vals : \A v \in vals : v <= m

\* JavaScript `x || 0` on a number or null
OrZero(x) == IF x = NULL \/ x = 0 THEN 0 ELSE x

\* body default `image_type = 'gallery'` / `formData.get(..) || 'gallery'`
DefaultType(t) == IF t = "omitted" THEN "gallery" ELSE t

(***************************************************************************)
(* Requests.                                                               *)
(***************************************************************************)
\* an uploaded multipart file: size in bytes, MIME type, and whether the
\* image library can decode it
NoFile == [present |-> FALSE, size |-> 0, type |-> "", decodes |-> FALSE]

\* the inputs of a request: besides the gallery fields, the guestbook
\* name/password/content, the login username, the targetId of an image
\* upload, the segments of an uploads path, and the url and forceRefresh
\* of a browser-side fetchWithCache call
NoReq == [op |-> "none", image_type |-> "omitted", filename |-> NoName,
          id |-> 0, cookie |-> <<>>, file |-> NoFile, ids |-> <<>>,
          base |-> 0, name |-> "", password |-> <<>>, content |-> "",
          username |-> "", side |-> "",
          relationship |-> "", targetId |-> NoName, path |-> <<>>,
          url |-> "", forceRefresh |-> FALSE]

\* files an admin may upload: a good JPEG, one byte over the size limit, a
\* HEIC file the image library cannot decode, a GIF (which it can), a
\* corrupt JPEG, and no file
GoodJpeg == [present |-> TRUE, size |-> 1024, type |-> "image/jpeg",
             decodes |-> TRUE]
FileInputs ==
  {NoFile, GoodJpeg,
   [GoodJpeg EXCEPT !.size = MAX_FILE_SIZE + 1],
   [GoodJpeg EXCEPT !.type = "image/heic", !.decodes = FALSE],
   [GoodJpeg EXCEPT !.type = "image/gif"],
   [GoodJpeg EXCEPT !.decodes = FALSE]}

\* admin_session cookie values a client may make up, as token sequences:
\* absent, a value of the form `admin_...`, and a value of another form
Cookies == {<<>>, <<"admin_", "1_1700000000000">>, <<"guest">>}

\* sessionToken.startsWith('admin_')
StartsWithAdmin(c) == Len(c) > 0 /\ c[1] = "admin_"

\* handler locals: existing = filenames still to unlink, found = rows the
\* first SELECT returned, t = formattedTime in scope, maxOrder = max_order,
\* removed = the UPDATE/DELETE of old rows has run, newId = insertId,
\* fs = outcome of the last unlink, k = loop index, before = the table when
\* a reorder or admin main upload arrived, had = the files when an admin
\* main upload arrived, qfail = a pool.query of the request rejected,
\* stored = the password column the SELECT returned, wrote = a file or row
\* the request wrote, read = the resolved path handed to readFile, cached =
\* the entry fetchWithCache found, fetched = it issued a network request
NoLoc == [existing |-> {}, found |-> 0, t |-> 0, maxOrder |-> 0,
          removed |-> FALSE, newId |-> 0, fs |-> "none", k |-> 0,
          before |-> {}, had |-> {}, qfail |-> FALSE, stored |-> <<>>,
          wrote |-> FALSE, read |-> <<>>, cached |-> NoEntry,
          fetched |-> FALSE]

\* a response: HTTP status, the keys of its JSON body, and the values of
\* the success, data and error keys
NoResp == [status |-> 0, keys |-> {}, success |-> FALSE, data |-> <<>>,
           error |-> ""]

\* NextResponse.json({success, data, error}, {status}); the handlers write
\* the error key on failures and never with success: true
Json(status, success, data, error) ==
  [status |-> status,
   keys |-> {"success"} \cup (IF error = "" THEN {} ELSE {"error"})
                        \cup (IF data = <<>> THEN {} ELSE {"data"}),
   success |-> success, data |-> data, error |-> error]

\* A response is observed (pc = "done") and acknowledged (Return) before any
\* other step is taken.  Return changes nothing but the finished request's
\* record, so this removes no interleaving of database and file-system
\* steps; it only fixes when the record of a finished request is discarded.
Quiet == \A q \in Procs : pc[q] # "done"

\* process p is suspended at the await named `label`
At(p, label) == Quiet /\ pc[p] = label

\* a handler may be entered by a process that has no request in flight
Free(p) == At(p, "idle")

\* `return NextResponse.json(...)`: the handler ends
Respond(p, r) ==
  /\ pc' = [pc EXCEPT ![p] = "done"]
  /\ resp' = [resp EXCEPT ![p] = r]

\* the handler suspends at its next await
Goto(p, label) ==
  /\ pc' = [pc EXCEPT ![p] = label]
  /\ resp' = [resp EXCEPT ![p] = NoResp]

\* a new request may be sent while fewer than `limit` have been
Begin(p, limit) ==
  /\ Free(p)
  /\ started < limit
  /\ started' = started + 1

(***************************************************************************)
(* File system: access(path) followed by unlink(path), each of which may   *)
(* throw.  The outcome is "unlinked", "missing" or "failed".               *)
(***************************************************************************)
UnlinkOutcomes(f) == IF f \in files THEN {"unlinked", "failed"} ELSE {"missing"}

AfterUnlink(f, outcome) == IF outcome = "unlinked" THEN files \ {f} ELSE files

(***************************************************************************)
(* POST /api/gallery                                                       *)
(***************************************************************************)
\* body parsing and validation; for a main image also the first
\* formattedTime, for a gallery image the formattedTime of the INSERT
GalleryPostStart(p, limit) ==
  /\ Begin(p, limit)
  /\ \E fn \in ClientNames :
       IF fn = NoName
         THEN /\ req' = [req EXCEPT ![p] = [NoReq EXCEPT !.op = "POST /api/gallery"]]
              /\ loc' = [loc EXCEPT ![p] = NoLoc]
              /\ Respond(p, Json(400, FALSE, <<>>, "Filename is required"))
         ELSE \E ty \in ImageTypes :
           LET it == DefaultType(ty) IN
           /\ req' = [req EXCEPT ![p] = [NoReq EXCEPT !.op = "POST /api/gallery",
                                           !.filename = fn, !.image_type = it]]
           /\ IF it \notin {"main", "gallery"}
                THEN /\ Respond(p, Json(400, FALSE, <<>>, "Invalid image_type"))
                     /\ loc' = [loc EXCEPT ![p] = NoLoc]
                ELSE /\ loc' = [loc EXCEPT ![p] = [NoLoc EXCEPT !.t = now]]
                     /\ IF it = "main" THEN Goto(p, "gp_select")
                                       ELSE Goto(p, "gp_max")
  /\ UNCHANGED <<site, gallery, nextId, nextGen, files, now>>

\* SELECT filename FROM gallery WHERE image_type = "main" AND deleted_at IS NULL
GalleryPostSelect(p) ==
  /\ At(p, "gp_select")
  /\ loc' = [loc EXCEPT ![p].existing =
                {r.filename : r \in LiveMains(gallery)} \ {NoName},
                         ![p].found = Cardinality(LiveMains(gallery))]
  /\ Goto(p, "gp_softdelete")
  /\ UNCHANGED <<site, started, gallery, nextId, nextGen, files, now, req>>

\* the UPDATE with its deleted_at test inverted (IS NOT NULL)
SoftDeleteMainsInverted(g, t) ==
  {IF r \in AllMains(g) \ LiveMains(g) THEN [r EXCEPT !.deleted_at = t] ELSE r :
     r \in g}

\* UPDATE gallery SET deleted_at = ? WHERE image_type = "main" AND deleted_at IS NULL
SoftDeleteMains(g, t) ==
  {IF r \in LiveMains(g) THEN [r EXCEPT !.deleted_at = t] ELSE r : r \in g}

GalleryPostSoftDelete(p) ==
  /\ At(p, "gp_softdelete")
  /\ gallery' = SoftDeleteMains(gallery, loc[p].t)
  /\ IF loc[p].existing = {}
       THEN /\ loc' = [loc EXCEPT ![p].removed = TRUE, ![p].t = now]
            /\ Goto(p, "gp_insert_main")
       ELSE /\ loc' = [loc EXCEPT ![p].removed = TRUE]
            /\ Goto(p, "gp_unlink")
  /\ UNCHANGED <<site, started, nextId, nextGen, files, now, req>>

\* one iteration of the loop over existingMainImages: access + unlink,
\* any error swallowed; after the last one the second formattedTime is taken
GalleryPostUnlink(p) ==
  /\ At(p, "gp_unlink")
  /\ \E f \in loc[p].existing, o \in {"unlinked", "missing", "failed"} :
       /\ o \in UnlinkOutcomes(f)
       /\ files' = AfterUnlink(f, o)
       /\ IF loc[p].existing = {f}
            THEN /\ loc' = [loc EXCEPT ![p].existing = {}, ![p].fs = o,
                                       ![p].t = now]
                 /\ Goto(p, "gp_insert_main")
            ELSE /\ loc' = [loc EXCEPT ![p].existing = @ \ {f}, ![p].fs = o]
                 /\ Goto(p, "gp_unlink")
  /\ UNCHANGED <<site, started, gallery, nextId, nextGen, now, req>>

\* INSERT INTO gallery (filename, image_type, created_at) VALUES (?, ?, ?)
GalleryPostInsertMain(p) ==
  /\ At(p, "gp_insert_main")
  /\ gallery' = gallery \cup
       {Row(nextId, req[p].filename, "main", NULL, loc[p].t, NULL)}
  /\ nextId' = nextId + 1
  /\ loc' = [loc EXCEPT ![p].newId = nextId]
  /\ Respond(p, Json(200, TRUE, <<>>, ""))
  /\ UNCHANGED <<site, started, nextGen, files, now, req>>

\* the MAX query without its `deleted_at IS NULL` filter
GalleryMaxOrderAnyRow(g) == OrZero(SqlMax(AllGallery(g)))

\* SELECT COALESCE(MAX(order_index), 0) ... WHERE image_type = "gallery"
\* AND deleted_at IS NULL, then `?.max_order || 0`
GalleryMaxOrder(g) ==
  LET m == SqlMax(LiveGallery(g)) IN OrZero(IF m = NULL THEN 0 ELSE m)

GalleryPostMax(p) ==
  /\ At(p, "gp_max")
  /\ loc' = [loc EXCEPT ![p].maxOrder = GalleryMaxOrder(gallery)]
  /\ Goto(p, "gp_insert_gallery")
  /\ UNCHANGED <<site, started, gallery, nextId, nextGen, files, now, req>>

\* INSERT INTO gallery (filename, image_type, created_at, order_index)
GalleryPostInsertGallery(p) ==
  /\ At(p, "gp_insert_gallery")
  /\ gallery' = gallery \cup
       {Row(nextId, req[p].filename, "gallery", loc[p].maxOrder + 1,
            loc[p].t, NULL)}
  /\ nextId' = nextId + 1
  /\ loc' = [loc EXCEPT ![p].newId = nextId]
  /\ Respond(p, Json(200, TRUE, <<>>, ""))
  /\ UNCHANGED <<site, started, nextGen, files, now, req>>

\* any pool.query of the handler rejects: the catch block answers 500
GalleryPostQueryFails(p) ==
  /\ Quiet
  /\ pc[p] \in {"gp_select", "gp_softdelete", "gp_insert_main", "gp_max",
                "gp_insert_gallery"}
  /\ Respond(p, Json(500, FALSE, <<>>, "Failed to create gallery entry"))
  /\ loc' = [loc EXCEPT ![p].qfail = TRUE]
  /\ UNCHANGED <<site, started, gallery, nextId, nextGen, files, now, req>>

(***************************************************************************)
(* POST /api/admin/upload                                                  *)
(***************************************************************************)
\* session check, form parsing, size check, generation of dbFilename
AdminUploadStart(p, limit) ==
  /\ Begin(p, limit)
  /\ loc' = [loc EXCEPT ![p] = [NoLoc EXCEPT !.before = gallery, !.had = files]]
  /\ \E c \in Cookies \cup sessions :
       LET r1 == [NoReq EXCEPT !.op = "POST /api/admin/upload", !.cookie = c] IN
       IF ~StartsWithAdmin(c)
         THEN /\ req' = [req EXCEPT ![p] = r1]
              /\ Respond(p, Json(401, FALSE, <<>>, "Unauthorized"))
              /\ UNCHANGED nextGen
         ELSE \E f \in FileInputs :
           LET r2 == [r1 EXCEPT !.file = f] IN
           IF ~f.present
             THEN /\ req' = [req EXCEPT ![p] = r2]
                  /\ Respond(p, Json(400, FALSE, <<>>, "no valid file"))
                  /\ UNCHANGED nextGen
           ELSE IF f.size > MAX_FILE_SIZE
             THEN /\ req' = [req EXCEPT ![p] = r2]
                  /\ Respond(p, Json(400, FALSE, <<>>,
                                     "File size exceeds 50MB limit"))
                  /\ UNCHANGED nextGen
           ELSE \E ty \in {"main", "gallery", "omitted"} :
             LET it == DefaultType(ty) IN
             IF it = "main"
               THEN /\ req' = [req EXCEPT ![p] =
                           [r2 EXCEPT !.image_type = it, !.filename = MainCover]]
                    /\ UNCHANGED nextGen
                    /\ Goto(p, "au_select")
               ELSE /\ req' = [req EXCEPT ![p] =
                           [r2 EXCEPT !.image_type = it,
                                      !.filename = GenBase + nextGen]]
                    /\ nextGen' = nextGen + 1
                    /\ Goto(p, "au_sharp")
  /\ UNCHANGED <<site, gallery, nextId, files, now>>

\* SELECT filename FROM gallery WHERE image_type = "main"
AdminUploadSelect(p) ==
  /\ At(p, "au_select")
  /\ loc' = [loc EXCEPT ![p].existing =
                {r.filename : r \in AllMains(gallery)} \ {NoName},
                         ![p].found = Cardinality(AllMains(gallery))]
  /\ Goto(p, "au_delete")
  /\ UNCHANGED <<site, started, gallery, nextId, nextGen, files, now, req>>

\* DELETE FROM gallery WHERE image_type = "main"
DeleteMains(g) == g \ AllMains(g)

AdminUploadDelete(p) ==
  /\ At(p, "au_delete")
  /\ gallery' = DeleteMains(gallery)
  /\ loc' = [loc EXCEPT ![p].removed = TRUE]
  /\ IF loc[p].existing = {} THEN Goto(p, "au_sharp") ELSE Goto(p, "au_unlink")
  /\ UNCHANGED <<site, started, nextId, nextGen, files, now, req>>

\* one iteration of the loop over existingImages: unlink, errors swallowed
AdminUploadUnlink(p) ==
  /\ At(p, "au_unlink")
  /\ \E f \in loc[p].existing, o \in {"unlinked", "missing", "failed"} :
       /\ o \in UnlinkOutcomes(f)
       /\ files' = AfterUnlink(f, o)
       /\ loc' = [loc EXCEPT ![p].existing = @ \ {f}, ![p].fs = o]
       /\ IF loc[p].existing = {f}
            THEN Goto(p, "au_sharp") ELSE Goto(p, "au_unlink")
  /\ UNCHANGED <<site, started, gallery, nextId, nextGen, now, req>>

\* the response of the catch block around sharp(...) and writeFile(...)
ProcessingError(f) ==
  IF f.type = "image/heic"
    THEN Json(400, FALSE, <<>>, "HEIC processing failed")
    ELSE Json(500, FALSE, <<>>, "image processing failed")

\* sharp(buffer).rotate().jpeg().resize().toBuffer()
AdminUploadSharp(p) ==
  /\ At(p, "au_sharp")
  /\ IF req[p].file.decodes
       THEN Goto(p, "au_write")
       ELSE Respond(p, ProcessingError(req[p].file))
  /\ UNCHANGED <<site, started, gallery, nextId, nextGen, files, now, req, loc>>

\* fs.writeFile(filepath, outputBuffer), then formattedTime for the INSERT
AdminUploadWrite(p) ==
  /\ At(p, "au_write")
  /\ \E ok \in BOOLEAN :
       IF ok
         THEN /\ files' = files \cup {req[p].filename}
              /\ loc' = [loc EXCEPT ![p].t = now, ![p].wrote = TRUE]
              /\ IF req[p].image_type = "gallery"
                   THEN Goto(p, "au_max") ELSE Goto(p, "au_insert_main")
         ELSE /\ Respond(p, ProcessingError(req[p].file))
              /\ UNCHANGED <<files, loc>>
  /\ UNCHANGED <<site, started, gallery, nextId, nextGen, now, req>>

\* SELECT MAX(order_index) as max_order FROM gallery WHERE image_type =
\* "gallery", then `?.max_order || 0`
AdminMaxOrder(g) == OrZero(SqlMax(AllGallery(g)))

AdminUploadMax(p) ==
  /\ At(p, "au_max")
  /\ loc' = [loc EXCEPT ![p].maxOrder = AdminMaxOrder(gallery)]
  /\ Goto(p, "au_insert_gallery")
  /\ UNCHANGED <<site, started, gallery, nextId, nextGen, files, now, req>>

\* INSERT INTO gallery (filename, image_type, order_index, created_at)
AdminUploadInsertGallery(p) ==
  /\ At(p, "au_insert_gallery")
  /\ gallery' = gallery \cup
       {Row(nextId, req[p].filename, "gallery", loc[p].maxOrder + 1,
            loc[p].t, NULL)}
  /\ nextId' = nextId + 1
  /\ loc' = [loc EXCEPT ![p].newId = nextId]
  /\ Respond(p, Json(200, TRUE, <<[filename |-> req[p].filename]>>, ""))
  /\ UNCHANGED <<site, started, nextGen, files, now, req>>

\* INSERT INTO gallery (filename, image_type, created_at) VALUES (?, ?, ?)
AdminUploadInsertMain(p) ==
  /\ At(p, "au_insert_main")
  /\ gallery' = gallery \cup
       {Row(nextId, req[p].filename, "main", NULL, loc[p].t, NULL)}
  /\ nextId' = nextId + 1
  /\ loc' = [loc EXCEPT ![p].newId = nextId]
  /\ Respond(p, Json(200, TRUE, <<[filename |-> req[p].filename]>>, ""))
  /\ UNCHANGED <<site, started, nextGen, files, now, req>>

\* any pool.query of the handler rejects: the outer catch answers 500
AdminUploadQueryFails(p) ==
  /\ Quiet
  /\ pc[p] \in {"au_select", "au_delete", "au_max", "au_insert_gallery",
                "au_insert_main"}
  /\ Respond(p, Json(500, FALSE, <<>>, "Failed to upload file"))
  /\ loc' = [loc EXCEPT ![p].qfail = TRUE]
  /\ UNCHANGED <<site, started, gallery, nextId, nextGen, files, now, req>>

(***************************************************************************)
(* POST /api/upload/image                                                  *)
(***************************************************************************)
\* supportedTypes
supportedTypes == {"image/jpeg", "image/jpg", "image/png", "image/webp"}

\* fileName: `${targetId}.jpg` under images/ for the targetId 'main_cover',
\* else `${timestamp}.jpg`
UploadImageName(targetId, t) == IF targetId = NoName THEN StampBase + t ELSE targetId

\* form parsing, the size check and the type check
UploadImageStart(p, limit) ==
  /\ Begin(p, limit)
  /\ loc' = [loc EXCEPT ![p] = NoLoc]
  /\ \E f \in FileInputs :
       LET r1 == [NoReq EXCEPT !.op = "POST /api/upload/image", !.file = f] IN
       IF ~f.present
         THEN /\ req' = [req EXCEPT ![p] = r1]
              /\ Respond(p, Json(400, FALSE, <<>>, "no valid file"))
       ELSE IF f.size > MAX_FILE_SIZE
         THEN /\ req' = [req EXCEPT ![p] = r1]
              /\ Respond(p, Json(400, FALSE, <<>>, "File size exceeds 50MB limit"))
       ELSE IF f.type \notin supportedTypes
         THEN /\ req' = [req EXCEPT ![p] = r1]
              /\ Respond(p, Json(400, FALSE, <<>>, "Unsupported file type"))
       ELSE \E targetId \in {NoName, MainCover} :
         /\ req' = [req EXCEPT ![p] =
                      [r1 EXCEPT !.targetId = targetId,
                                 !.filename = UploadImageName(targetId, now)]]
         /\ Goto(p, "ui_sharp")
  /\ UNCHANGED <<site, gallery, nextId, nextGen, files, now>>

\* sharp(buffer).rotate().jpeg().resize().toBuffer()
UploadImageSharp(p) ==
  /\ At(p, "ui_sharp")
  /\ IF req[p].file.decodes
       THEN Goto(p, "ui_write")
       ELSE Respond(p, Json(500, FALSE, <<>>, "upload failed"))
  /\ UNCHANGED <<site, gallery, nextId, nextGen, files, started, now, req, loc>>

\* writeFile(filePath, outputBuffer): an existing file is overwritten
UploadImageWrite(p) ==
  /\ At(p, "ui_write")
  /\ \E ok \in BOOLEAN :
       IF ok
         THEN /\ files' = files \cup {req[p].filename}
              /\ loc' = [loc EXCEPT ![p].wrote = TRUE]
              /\ Respond(p, [Json(200, TRUE, <<>>, "")
                               EXCEPT !.data = <<"/uploads/", req[p].filename>>,
                                      !.keys = {"success", "data"}])
         ELSE /\ Respond(p, Json(500, FALSE, <<>>, "upload failed"))
              /\ UNCHANGED <<files, loc>>
  /\ UNCHANGED <<site, gallery, nextId, nextGen, started, now, req>>

(***************************************************************************)
(* DELETE /api/gallery?id=X                                                *)
(***************************************************************************)
\* the id query parameter; 0 stands for a request without one
GalleryDeleteStart(p, limit) ==
  /\ Begin(p, limit)
  /\ \E id \in 0..nextId :
       /\ req' = [req EXCEPT ![p] = [NoReq EXCEPT !.op = "DELETE /api/gallery",
                                       !.id = id]]
       /\ IF id = 0
            THEN Respond(p, Json(400, FALSE, <<>>, "ID is required"))
            ELSE Goto(p, "gd_select")
  /\ loc' = [loc EXCEPT ![p] = NoLoc]
  /\ UNCHANGED <<site, gallery, nextId, nextGen, files, now>>

\* SELECT id, filename FROM gallery WHERE id = ? AND deleted_at IS NULL,
\* then formattedTime for the UPDATE
GalleryDeleteSelect(p) ==
  /\ At(p, "gd_select")
  /\ LET rows == {r \in gallery : r.id = req[p].id /\ r.deleted_at = NULL} IN
       IF rows = {}
         THEN /\ Respond(p, Json(404, FALSE, <<>>, "Image not found"))
              /\ UNCHANGED loc
         ELSE /\ loc' = [loc EXCEPT ![p].existing = {r.filename : r \in rows},
                                    ![p].found = 1, ![p].t = now]
              /\ Goto(p, "gd_update")
  /\ UNCHANGED <<site, started, gallery, nextId, nextGen, files, now, req>>

\* UPDATE gallery SET deleted_at = ? WHERE id = ?
SoftDeleteId(g, id, t) ==
  {IF r.id = id THEN [r EXCEPT !.deleted_at = t] ELSE r : r \in g}

GalleryDeleteUpdate(p) ==
  /\ At(p, "gd_update")
  /\ gallery' = SoftDeleteId(gallery, req[p].id, loc[p].t)
  /\ loc' = [loc EXCEPT ![p].removed = TRUE]
  /\ IF loc[p].existing = {NoName}
       THEN Respond(p, Json(200, TRUE, <<>>, ""))
       ELSE Goto(p, "gd_unlink")
  /\ UNCHANGED <<site, started, nextId, nextGen, files, now, req>>

\* a handler that lets the error of access/unlink reach the outer catch
DeleteUnlinkResponseUncaught(o) ==
  IF o = "unlinked" THEN Json(200, TRUE, <<>>, "")
  ELSE Json(500, FALSE, <<>>, "Failed to delete gallery entry")

\* the response after the try/catch around access + unlink
DeleteUnlinkResponse(o) == Json(200, TRUE, <<>>, "")

\* access(filePath) and unlink(filePath) in a try/catch
GalleryDeleteUnlink(p) ==
  /\ At(p, "gd_unlink")
  /\ \E f \in loc[p].existing, o \in {"unlinked", "missing", "failed"} :
       /\ o \in UnlinkOutcomes(f)
       /\ files' = AfterUnlink(f, o)
       /\ loc' = [loc EXCEPT ![p].existing = {}, ![p].fs = o]
       /\ Respond(p, DeleteUnlinkResponse(o))
  /\ UNCHANGED <<site, started, gallery, nextId, nextGen, now, req>>

\* a pool.query of the handler rejects: the catch block answers 500
GalleryDeleteQueryFails(p) ==
  /\ Quiet
  /\ pc[p] \in {"gd_select", "gd_update"}
  /\ Respond(p, Json(500, FALSE, <<>>, "Failed to delete gallery entry"))
  /\ loc' = [loc EXCEPT ![p].qfail = TRUE]
  /\ UNCHANGED <<site, started, gallery, nextId, nextGen, files, now, req>>

(***************************************************************************)
(* GET /api/gallery                                                        *)
(*                                                                         *)
(* The second ORDER BY key is a CASE whose branches are an integer         *)
(* (order_index) and a datetime (created_at).  MySQL gives such a CASE the *)
(* aggregated type VARCHAR, so the key is the decimal text of order_index  *)
(* or the 'YYYY-MM-DD HH:MM:SS' text of created_at, and rows are compared  *)
(* as character strings.  Strings are sequences of character codes.        *)
(***************************************************************************)
RECURSIVE DecimalString(_)
\* the decimal text of a non-negative integer
DecimalString(n) ==
  IF n < 10 THEN <<48 + n>> ELSE DecimalString(n \div 10) \o <<48 + (n % 10)>>

\* the text of a datetime: second t of the clock is 2025-01-01 00:00:0t
DateString(t) ==
  <<50, 48, 50, 53, 45, 48, 49, 45, 48, 49, 32, 48, 48, 58, 48, 48, 58>>
    \o (IF t < 10 THEN <<48>> ELSE <<>>) \o DecimalString(t)

\* string comparison, character by character; a proper prefix sorts first
StringLess(a, b) ==
  \E i \in 1..(Len(a) + 1) :
    /\ i <= Len(b)
    /\ \A j \in 1..(i - 1) : a[j] = b[j]
    /\ (i = Len(a) + 1 \/ a[i] < b[i])

\* CASE WHEN image_type = 'main' THEN 0 ELSE 1 END
TypeKey(r) == IF r.image_type = "main" THEN 0 ELSE 1

\* CASE WHEN image_type = 'gallery' AND order_index IS NOT NULL
\*      THEN order_index ELSE created_at END
OrderKey(r) ==
  IF r.image_type = "gallery" /\ r.order_index # NULL
    THEN DecimalString(r.order_index)
    ELSE DateString(r.created_at)

\* row a may precede row b under the ORDER BY
MayPrecede(a, b) ==
  \/ TypeKey(a) < TypeKey(b)
  \/ TypeKey(a) = TypeKey(b) /\ ~StringLess(OrderKey(b), OrderKey(a))

RECURSIVE Listings(_)
\* the result sets the SELECT may return: every order of the rows that
\* respects the ORDER BY (rows with equal keys come in any order)
Listings(rows) ==
  IF rows = {} THEN {<<>>}
  ELSE UNION {{<<r>> \o rest : rest \in Listings(rows \ {r})} :
              r \in {x \in rows : \A y \in rows : MayPrecede(x, y)}}

\* SELECT id, filename, image_type, created_at, order_index FROM gallery
GalleryGetRows(g) == g

\* rows.map(row => ({id, url, filename, image_type, created_at, order_index}))
GalleryItem(r) ==
  [id |-> r.id, url |-> <<"/uploads/", r.filename>>, filename |-> r.filename,
   image_type |-> r.image_type, created_at |-> r.created_at,
   order_index |-> r.order_index]

GalleryGetStart(p, limit) ==
  /\ Begin(p, limit)
  /\ req' = [req EXCEPT ![p] = [NoReq EXCEPT !.op = "GET /api/gallery"]]
  /\ loc' = [loc EXCEPT ![p] = NoLoc]
  /\ Goto(p, "gg_query")
  /\ UNCHANGED <<site, gallery, nextId, nextGen, files, now>>

\* the query resolves before the 10 s timer
GalleryGetQuery(p) ==
  /\ At(p, "gg_query")
  /\ \E rows \in Listings(GalleryGetRows(gallery)) :
       Respond(p, [Json(200, TRUE,
                        [i \in 1..Len(rows) |-> GalleryItem(rows[i])], "")
                     EXCEPT !.keys = {"success", "data"}])
  /\ loc' = [loc EXCEPT ![p].found = Cardinality(gallery)]
  /\ UNCHANGED <<site, started, gallery, nextId, nextGen, files, now, req>>

\* the 10 s timer is never started
TimerNeverArmed(p, label) == FALSE

\* setTimeout(() => reject(new Error('Database query timeout')), 10000):
\* the timer of a read handler may fire while the race is pending
TimerArmed(p, label) == At(p, label)

\* a catch block that reports the failure as the other read handlers do
GalleryGetFallbackError == Json(500, FALSE, <<>>, "Failed to fetch gallery")

\* the response of the catch block: { success: true, data: [] }
GalleryGetFallback ==
  [Json(200, TRUE, <<>>, "") EXCEPT !.keys = {"success", "data"}]

\* the query rejects: the catch block answers with an empty list
GalleryGetCatch(p) ==
  /\ At(p, "gg_query")
  /\ loc' = [loc EXCEPT ![p].fs = "rejected", ![p].qfail = TRUE]
  /\ Respond(p, GalleryGetFallback)
  /\ UNCHANGED <<site, started, gallery, nextId, nextGen, files, now, req>>

\* the timer rejects before the query settles: the same catch block
GalleryGetTimeout(p) ==
  /\ TimerArmed(p, "gg_query")
  /\ loc' = [loc EXCEPT ![p].fs = "timeout"]
  /\ Respond(p, GalleryGetFallback)
  /\ UNCHANGED <<site, started, gallery, nextId, nextGen, files, now, req>>

(***************************************************************************)
(* PUT /api/admin/gallery {sortedIds}: reorder.  The route handler is not  *)
(* among the source files; it is modelled from the specification:          *)
(* "assigns order_index = position for each id in the given order; not     *)
(* transactional across rows".  The base of the positions (0 or 1) is not  *)
(* fixed by the specification and is an input here.                        *)
(***************************************************************************)
RECURSIVE Ascending(_)
\* the numbers of a set in ascending order
Ascending(S) ==
  IF S = {} THEN <<>>
  ELSE LET m == CHOOSE x \in S : \A y \in S : x <= y
       IN <<m>> \o Ascending(S \ {m})

\* the list rotated left by k
Rotate(l, k) == SubSeq(l, k + 1, Len(l)) \o SubSeq(l, 1, k)

\* the list reversed
Reverse(l) == [i \in 1..Len(l) |-> l[Len(l) + 1 - i]]

\* orders the admin page may send: the live gallery ids rotated, and the
\* first ids of the reversed list (an order of some of the rows only)
SortedIdLists(g) ==
  LET l == Ascending({r.id : r \in LiveGallery(g)}) IN
  {Rotate(l, k) : k \in 0..(Len(l) - 1)}
    \cup {SubSeq(Reverse(l), 1, m) : m \in 1..Len(l)}

ReorderStart(p, limit) ==
  /\ Begin(p, limit)
  /\ \E ids \in SortedIdLists(gallery), base \in {0, 1} :
       req' = [req EXCEPT ![p] = [NoReq EXCEPT !.op = "PUT /api/admin/gallery",
                                               !.ids = ids, !.base = base]]
  /\ loc' = [loc EXCEPT ![p] = [NoLoc EXCEPT !.k = 1, !.before = gallery]]
  /\ Goto(p, "ro_update")
  /\ UNCHANGED <<site, gallery, nextId, nextGen, files, now>>

\* UPDATE gallery SET order_index = ? WHERE id = ?
SetOrderIndex(g, id, oi) ==
  {IF r.id = id THEN [r EXCEPT !.order_index = oi] ELSE r : r \in g}

\* the k-th UPDATE of the loop over sortedIds
ReorderUpdate(p) ==
  /\ At(p, "ro_update")
  /\ gallery' = SetOrderIndex(gallery, req[p].ids[loc[p].k],
                              req[p].base + loc[p].k - 1)
  /\ loc' = [loc EXCEPT ![p].k = @ + 1]
  /\ IF loc[p].k = Len(req[p].ids)
       THEN Respond(p, Json(200, TRUE, <<>>, ""))
       ELSE Goto(p, "ro_update")
  /\ UNCHANGED <<site, started, nextId, nextGen, files, now, req>>

\* an UPDATE rejects: the earlier UPDATEs stay
ReorderQueryFails(p) ==
  /\ At(p, "ro_update")
  /\ Respond(p, Json(500, FALSE, <<>>, "Failed to reorder gallery"))
  /\ loc' = [loc EXCEPT ![p].qfail = TRUE]
  /\ UNCHANGED <<site, started, gallery, nextId, nextGen, files, now, req>>

(***************************************************************************)
(* Passwords.  hashPassword and verifyPassword of '@/lib/encryption' are   *)
(* not among the source files; they are modelled from their uses: a stored *)
(* hash has the form `salt:digest`, and a password verifies against it     *)
(* when the digest of salt and password is the stored digest.  A password  *)
(* is a sequence of characters.                                            *)
(***************************************************************************)
\* passwords a visitor may send (<<>> = parameter absent)
PasswordInputs == {<<>>, <<"a">>, <<"b">>}

\* a one-way digest without collisions on the passwords of the model
Digest(s) ==
  [i \in 1..Len(s) |-> CASE s[i] = "a" -> "x" [] s[i] = "b" -> "y"
                         [] s[i] = "s" -> "w" [] OTHER -> "z"]

\* storedPassword.includes(':')
IncludesColon(s) == \E i \in 1..Len(s) : s[i] = ":"

\* the position of the first ':' of a string that has one
FirstColon(s) == CHOOSE i \in 1..Len(s) : s[i] = ":" /\ \A j \in 1..(i - 1) : s[j] # ":"

hashPassword(pw) == <<"s", ":">> \o Digest(<<"s">> \o pw)

verifyPassword(pw, stored) ==
  /\ IncludesColon(stored)
  /\ LET i == FirstColon(stored) IN
       SubSeq(stored, i + 1, Len(stored)) = Digest(SubSeq(stored, 1, i - 1) \o pw)

(***************************************************************************)
(* /api/guestbook                                                          *)
(***************************************************************************)
GuestbookRow(id, name, pw, content, ca, da) ==
  [id |-> id, name |-> name, password |-> pw, content |-> content,
   created_at |-> ca, deleted_at |-> da]

\* the SELECT without its deleted_at IS NULL condition
LiveEntryOrDeleted(gb, id) == {r \in gb : r.id = id}

\* WHERE id = ? AND deleted_at IS NULL
LiveEntry(gb, id) == {r \in gb : r.id = id /\ r.deleted_at = NULL}

RECURSIVE NewestFirst(_)
\* ORDER BY created_at DESC: the listings the database may return
NewestFirst(rows) ==
  IF rows = {} THEN {<<>>}
  ELSE UNION {{<<r>> \o rest : rest \in NewestFirst(rows \ {r})} :
              r \in {x \in rows : \A y \in rows : x.created_at >= y.created_at}}

\* the formatted rows: { id, name, content, created_at: 'YYYY. MM. DD HH:mm' }
GuestbookItem(r) ==
  [id |-> r.id, name |-> r.name, content |-> r.content,
   created_at |-> <<"2025. 01. 01 00:00", r.created_at \div 60>>]

\* the state the guestbook handlers leave alone
galleryState == <<gallery, nextId, nextGen, files>>

\* a catch block that answers as the gallery read does
MutationErrorSwallowed(msg) == Json(200, TRUE, <<>>, "")

\* the catch block of a guestbook or contacts mutation:
\* { success: false, error: msg } with status 500
MutationError(msg) == Json(500, FALSE, <<>>, msg)

GuestbookGetStart(p, limit) ==
  /\ Begin(p, limit)
  /\ req' = [req EXCEPT ![p] = [NoReq EXCEPT !.op = "GET /api/guestbook"]]
  /\ loc' = [loc EXCEPT ![p] = NoLoc]
  /\ Goto(p, "gbg_query")
  /\ UNCHANGED <<site, galleryState, now>>

\* SELECT ... FROM guestbook WHERE deleted_at IS NULL ORDER BY created_at
\* DESC LIMIT 50 resolves before the timer
GuestbookGetQuery(p) ==
  /\ At(p, "gbg_query")
  /\ \E rows \in NewestFirst({r \in guestbook : r.deleted_at = NULL}) :
       LET n == IF Len(rows) > GUESTBOOK_LIMIT THEN GUESTBOOK_LIMIT ELSE Len(rows)
       IN Respond(p, [Json(200, TRUE, [i \in 1..n |-> GuestbookItem(rows[i])], "")
                        EXCEPT !.keys = {"success", "data"}])
  /\ UNCHANGED <<site, galleryState, started, now, req, loc>>

\* the response of the catch block of the guestbook read
GuestbookGetError == Json(500, FALSE, <<>>, "Failed to fetch guestbook")

\* the query rejects
GuestbookGetCatch(p) ==
  /\ At(p, "gbg_query")
  /\ loc' = [loc EXCEPT ![p].fs = "rejected", ![p].qfail = TRUE]
  /\ Respond(p, GuestbookGetError)
  /\ UNCHANGED <<site, galleryState, started, now, req>>

\* the timer rejects before the query settles
GuestbookGetTimeout(p) ==
  /\ TimerArmed(p, "gbg_query")
  /\ loc' = [loc EXCEPT ![p].fs = "timeout"]
  /\ Respond(p, GuestbookGetError)
  /\ UNCHANGED <<site, galleryState, started, now, req>>

\* POST: body parsing, hashPassword(password), formattedTime
GuestbookPostStart(p, limit) ==
  /\ Begin(p, limit)
  /\ \E pw \in PasswordInputs \ {<<>>} :
       req' = [req EXCEPT ![p] = [NoReq EXCEPT !.op = "POST /api/guestbook",
                    !.name = "guest", !.password = pw, !.content = "hello"]]
  /\ loc' = [loc EXCEPT ![p] = [NoLoc EXCEPT !.t = now]]
  /\ Goto(p, "gbp_insert")
  /\ UNCHANGED <<site, galleryState, now>>

\* INSERT INTO guestbook (name, password, content, created_at)
GuestbookPostInsert(p) ==
  /\ At(p, "gbp_insert")
  /\ guestbook' = guestbook \cup
       {GuestbookRow(gbNextId, req[p].name, hashPassword(req[p].password),
                     req[p].content, loc[p].t, NULL)}
  /\ gbNextId' = gbNextId + 1
  /\ loc' = [loc EXCEPT ![p].newId = gbNextId, ![p].wrote = TRUE]
  /\ Respond(p, Json(200, TRUE, <<>>, ""))
  /\ UNCHANGED <<focused, section, sessions, contacts, apiCache, clock, galleryState, started, now, req>>

GuestbookPostQueryFails(p) ==
  /\ At(p, "gbp_insert")
  /\ loc' = [loc EXCEPT ![p].qfail = TRUE]
  /\ Respond(p, MutationError("Failed to create guestbook entry"))
  /\ UNCHANGED <<site, galleryState, started, now, req>>

\* DELETE ?id=X&password=P: parameter check (id 0 = parameter absent)
GuestbookDeleteStart(p, limit) ==
  /\ Begin(p, limit)
  /\ loc' = [loc EXCEPT ![p] = NoLoc]
  /\ \E id \in 0..gbNextId, pw \in PasswordInputs :
       /\ req' = [req EXCEPT ![p] = [NoReq EXCEPT !.op = "DELETE /api/guestbook",
                                                !.id = id, !.password = pw]]
       /\ IF id = 0 \/ pw = <<>>
            THEN Respond(p, Json(400, FALSE, <<>>, "id and password required"))
            ELSE Goto(p, "gbd_select")
  /\ UNCHANGED <<site, galleryState, now>>

\* the comparison with a legacy plaintext password, inverted
PasswordMatchInverted(pw, stored) ==
  IF IncludesColon(stored) THEN verifyPassword(pw, stored) ELSE pw # stored

\* passwordMatch: a stored value with a ':' is verified as a hash, any
\* other is compared as plaintext
PasswordMatch(pw, stored) ==
  IF IncludesColon(stored) THEN verifyPassword(pw, stored) ELSE pw = stored

\* SELECT password FROM guestbook WHERE id = ? AND deleted_at IS NULL, then
\* the password check; for a hashed password also formattedTime
GuestbookDeleteSelect(p) ==
  /\ At(p, "gbd_select")
  /\ LET rows == LiveEntry(guestbook, req[p].id) IN
     IF rows = {}
       THEN /\ Respond(p, Json(404, FALSE, <<>>, "message not found"))
            /\ UNCHANGED loc
       ELSE LET stored == (CHOOSE r \in rows : TRUE).password IN
            IF ~PasswordMatch(req[p].password, stored)
              THEN /\ Respond(p, Json(401, FALSE, <<>>, "password mismatch"))
                   /\ loc' = [loc EXCEPT ![p].found = 1, ![p].stored = stored]
              ELSE /\ loc' = [loc EXCEPT ![p].found = 1, ![p].stored = stored,
                                         ![p].t = now]
                   /\ IF IncludesColon(stored) THEN Goto(p, "gbd_update")
                                               ELSE Goto(p, "gbd_rehash")
  /\ UNCHANGED <<site, galleryState, started, now, req>>

\* UPDATE guestbook SET password = ? WHERE id = ?
SetPassword(gb, id, pw) ==
  {IF r.id = id THEN [r EXCEPT !.password = pw] ELSE r : r \in gb}

\* the re-hash of a matching plaintext password; a rejected UPDATE is
\* logged and the deletion goes on; then formattedTime
GuestbookDeleteRehash(p) ==
  /\ At(p, "gbd_rehash")
  /\ \E ok \in BOOLEAN :
       IF ok
         THEN /\ guestbook' = SetPassword(guestbook, req[p].id,
                                          hashPassword(req[p].password))
              /\ loc' = [loc EXCEPT ![p].t = now]
         ELSE /\ guestbook' = guestbook
              /\ loc' = [loc EXCEPT ![p].t = now, ![p].qfail = TRUE,
                                         ![p].fs = "rehash"]
  /\ Goto(p, "gbd_update")
  /\ UNCHANGED <<focused, section, sessions, gbNextId, contacts, apiCache, clock, galleryState, started,
                 now, req>>

\* UPDATE guestbook SET deleted_at = ? WHERE id = ?
SoftDeleteEntry(gb, id, t) ==
  {IF r.id = id THEN [r EXCEPT !.deleted_at = t] ELSE r : r \in gb}

GuestbookDeleteUpdate(p) ==
  /\ At(p, "gbd_update")
  /\ guestbook' = SoftDeleteEntry(guestbook, req[p].id, loc[p].t)
  /\ loc' = [loc EXCEPT ![p].removed = TRUE]
  /\ Respond(p, Json(200, TRUE, <<>>, ""))
  /\ UNCHANGED <<focused, section, sessions, gbNextId, contacts, apiCache, clock, galleryState, started,
                 now, req>>

\* the SELECT or the final UPDATE rejects: the catch block answers 500
GuestbookDeleteQueryFails(p) ==
  /\ Quiet
  /\ pc[p] \in {"gbd_select", "gbd_update"}
  /\ loc' = [loc EXCEPT ![p].qfail = TRUE, ![p].fs = "rejected"]
  /\ Respond(p, MutationError("failed to delete message"))
  /\ UNCHANGED <<site, galleryState, started, now, req>>

(***************************************************************************)
(* /api/contacts                                                           *)
(***************************************************************************)
\* the rank of the CASE relationship ... END sort key (NULL sorts first)
RelationshipRank(r) ==
  CASE r = "person" -> 1 [] r = "father" -> 2 [] r = "mother" -> 3
    [] OTHER -> 0

\* ORDER BY side, CASE relationship ... END ("bride" < "groom")
ContactMayPrecede(a, b) ==
  \/ a.side = "bride" /\ b.side = "groom"
  \/ a.side = b.side /\ RelationshipRank(a.relationship) <= RelationshipRank(b.relationship)

RECURSIVE ContactListings(_)
ContactListings(rows) ==
  IF rows = {} THEN {<<>>}
  ELSE UNION {{<<r>> \o rest : rest \in ContactListings(rows \ {r})} :
              r \in {x \in rows : \A y \in rows : ContactMayPrecede(x, y)}}

ContactsGetStart(p, limit) ==
  /\ Begin(p, limit)
  /\ req' = [req EXCEPT ![p] = [NoReq EXCEPT !.op = "GET /api/contacts"]]
  /\ loc' = [loc EXCEPT ![p] = NoLoc]
  /\ Goto(p, "cg_query")
  /\ UNCHANGED <<site, galleryState, now>>

ContactsGetQuery(p) ==
  /\ At(p, "cg_query")
  /\ \E rows \in ContactListings(contacts) :
       Respond(p, [Json(200, TRUE, rows, "") EXCEPT !.keys = {"success", "data"}])
  /\ UNCHANGED <<site, galleryState, started, now, req, loc>>

\* the response of the catch block of the contacts read
ContactsGetError == Json(500, FALSE, <<>>, "Failed to fetch contacts")

ContactsGetCatch(p) ==
  /\ At(p, "cg_query")
  /\ loc' = [loc EXCEPT ![p].fs = "rejected", ![p].qfail = TRUE]
  /\ Respond(p, ContactsGetError)
  /\ UNCHANGED <<site, galleryState, started, now, req>>

ContactsGetTimeout(p) ==
  /\ TimerArmed(p, "cg_query")
  /\ loc' = [loc EXCEPT ![p].fs = "timeout"]
  /\ Respond(p, ContactsGetError)
  /\ UNCHANGED <<site, galleryState, started, now, req>>

\* POST: the body fields are inserted as sent
ContactsPostStart(p, limit) ==
  /\ Begin(p, limit)
  /\ \E side \in {"groom", "bride"}, rel \in {"person", "father"} :
       req' = [req EXCEPT ![p] = [NoReq EXCEPT !.op = "POST /api/contacts",
                                              !.side = side, !.relationship = rel]]
  /\ loc' = [loc EXCEPT ![p] = NoLoc]
  /\ Goto(p, "cp_insert")
  /\ UNCHANGED <<site, galleryState, now>>

\* INSERT INTO contacts (side, relationship, name, ...)
ContactsPostInsert(p) ==
  /\ At(p, "cp_insert")
  /\ contacts' = contacts \cup
       {[id |-> Cardinality(contacts) + 1, side |-> req[p].side,
         relationship |-> req[p].relationship]}
  /\ loc' = [loc EXCEPT ![p].wrote = TRUE]
  /\ Respond(p, Json(200, TRUE, <<>>, ""))
  /\ UNCHANGED <<focused, section, sessions, guestbook, gbNextId, apiCache, clock, galleryState, started,
                 now, req>>

ContactsPostQueryFails(p) ==
  /\ At(p, "cp_insert")
  /\ loc' = [loc EXCEPT ![p].qfail = TRUE]
  /\ Respond(p, MutationError("Failed to create contact"))
  /\ UNCHANGED <<site, galleryState, started, now, req>>

(***************************************************************************)
(* POST /api/admin/login and GET /api/health                               *)
(***************************************************************************)
\* the admin table: one account
AdminTable == {[id |-> 1, username |-> "admin", password |-> hashPassword(<<"a">>)]}

\* usernames a client may send ("" = field absent)
Usernames == {"", "admin", "nobody"}

\* NextResponse.json({ success, message, ... }, { status }): the login
\* handler writes its text under the key `message`
LoginJson(status, success) ==
  [status |-> status,
   keys |-> IF success THEN {"success", "message", "admin"}
                       ELSE {"success", "message"},
   success |-> success, data |-> <<>>, error |-> ""]

\* body parsing and the username/password check
LoginStart(p, limit) ==
  /\ Begin(p, limit)
  /\ loc' = [loc EXCEPT ![p] = NoLoc]
  /\ \E parses \in BOOLEAN :
       IF ~parses
         THEN /\ req' = [req EXCEPT ![p] = [NoReq EXCEPT !.op = "POST /api/admin/login"]]
              /\ Respond(p, LoginJson(400, FALSE))
         ELSE \E u \in Usernames, pw \in PasswordInputs :
           /\ req' = [req EXCEPT ![p] = [NoReq EXCEPT !.op = "POST /api/admin/login",
                                           !.username = u, !.password = pw]]
           /\ IF u = "" \/ pw = <<>>
                THEN Respond(p, LoginJson(400, FALSE))
                ELSE Goto(p, "lg_query")
  /\ UNCHANGED <<site, galleryState, now>>

\* const sessionId = `admin_${admin.id}_${Date.now()}`
SessionId(a, t) == <<"admin_", a.id, t>>

\* SELECT id, username, password FROM admin WHERE username = ?, then
\* verifyPassword and the session cookie
LoginQuery(p) ==
  /\ At(p, "lg_query")
  /\ LET rows == {a \in AdminTable : a.username = req[p].username} IN
     IF rows = {}
       THEN Respond(p, LoginJson(401, FALSE)) /\ UNCHANGED sessions
       ELSE LET admin == CHOOSE a \in rows : TRUE IN
         IF ~verifyPassword(req[p].password, admin.password)
           THEN Respond(p, LoginJson(401, FALSE)) /\ UNCHANGED sessions
           ELSE /\ Respond(p, LoginJson(200, TRUE))
                /\ sessions' = sessions \cup {SessionId(admin, now)}
  /\ UNCHANGED <<focused, section, guestbook, gbNextId, contacts, apiCache, clock,
                 galleryState, started, now, req, loc>>

LoginQueryFails(p) ==
  /\ At(p, "lg_query")
  /\ loc' = [loc EXCEPT ![p].qfail = TRUE]
  /\ Respond(p, LoginJson(500, FALSE))
  /\ UNCHANGED <<site, galleryState, started, now, req>>

\* NextResponse.json({ status: 'ok', timestamp }, { status: 200 })
HealthJson ==
  [status |-> 200, keys |-> {"status", "timestamp"}, success |-> FALSE,
   data |-> <<>>, error |-> ""]

Health(p, limit) ==
  /\ Begin(p, limit)
  /\ req' = [req EXCEPT ![p] = [NoReq EXCEPT !.op = "GET /api/health"]]
  /\ loc' = [loc EXCEPT ![p] = NoLoc]
  /\ Respond(p, HealthJson)
  /\ UNCHANGED <<site, galleryState, now>>

(***************************************************************************)
(* The clock, the initial states and the specifications.                   *)
(***************************************************************************)
Tick ==
  /\ Quiet
  /\ now < MaxTime
  /\ now' = now + 1
  /\ UNCHANGED <<site, started, gallery, nextId, nextGen, files, pc, req, loc, resp>>

\* rows an existing installation may hold: two live main rows (as two
\* interleaved additions leave them) and two live gallery rows
SeedRows ==
  {Row(1, MainCover, "main", NULL, 1, NULL),
   Row(2, OtherName, "main", NULL, 1, NULL),
   Row(3, GenBase, "gallery", 1, 1, NULL),
   Row(4, GenBase + 1, "gallery", 2, 1, NULL)}

\* empty guestbook and contacts tables, empty browser cache, no session
\* cookie issued
NoSite ==
  /\ guestbook = {}
  /\ gbNextId = 1
  /\ contacts = {}
  /\ apiCache = [u \in Urls |-> NoEntry]
  /\ clock = 0
  /\ sessions = {}
  /\ focused = TRUE
  /\ section = [s \in Sections |-> NoSection]

NoRequests ==
  /\ pc = [p \in Procs |-> "idle"]
  /\ req = [p \in Procs |-> NoReq]
  /\ loc = [p \in Procs |-> NoLoc]
  /\ resp = [p \in Procs |-> NoResp]

\* a fresh installation: empty table, one photo already uploaded
Init ==
  /\ gallery = {}
  /\ nextId = 1
  /\ nextGen = 0
  /\ files = {OtherName}
  /\ now = 1
  /\ started = 0
  /\ NoRequests
  /\ NoSite

\* any table over the seed rows, each live row with its file
InitSeq ==
  /\ gallery \in SUBSET SeedRows
  /\ nextId = Cardinality(SeedRows) + 1
  /\ nextGen = 2
  /\ files = {r.filename : r \in gallery}
  /\ now = 1
  /\ started = 0
  /\ NoRequests
  /\ NoSite

\* the client has read the response of its finished request
Return(p) ==
  /\ pc[p] = "done"
  /\ pc' = [pc EXCEPT ![p] = "idle"]
  /\ req' = [req EXCEPT ![p] = NoReq]
  /\ loc' = [loc EXCEPT ![p] = NoLoc]
  /\ resp' = [resp EXCEPT ![p] = NoResp]
  /\ UNCHANGED <<site, started, gallery, nextId, nextGen, files, now>>

\* a gallery of OrderRows numbered photos as OrderRows uploads leave it, an
\* older photo without order_index, and the main image
InitOrder ==
  /\ gallery = {Row(i, GenBase + i, "gallery", i, 1, NULL) : i \in 1..OrderRows}
                 \cup {Row(OrderRows + 1, OtherName, "gallery", NULL, 1, NULL),
                       Row(OrderRows + 2, MainCover, "main", NULL, 1, NULL)}
  /\ nextId = OrderRows + 3
  /\ nextGen = OrderRows + 1
  /\ files = {r.filename : r \in gallery}
  /\ now = 1
  /\ started = 0
  /\ NoRequests
  /\ NoSite

Step(p, limit) ==
  \/ GalleryPostStart(p, limit)
  \/ GalleryPostSelect(p)
  \/ GalleryPostSoftDelete(p)
  \/ GalleryPostUnlink(p)
  \/ GalleryPostInsertMain(p)
  \/ GalleryPostMax(p)
  \/ GalleryPostInsertGallery(p)
  \/ GalleryPostQueryFails(p)
  \/ AdminUploadStart(p, limit)
  \/ AdminUploadSelect(p)
  \/ AdminUploadDelete(p)
  \/ AdminUploadUnlink(p)
  \/ AdminUploadSharp(p)
  \/ AdminUploadWrite(p)
  \/ AdminUploadMax(p)
  \/ AdminUploadInsertGallery(p)
  \/ AdminUploadInsertMain(p)
  \/ AdminUploadQueryFails(p)
  \/ UploadImageStart(p, limit)
  \/ UploadImageSharp(p)
  \/ UploadImageWrite(p)
  \/ GalleryDeleteStart(p, limit)
  \/ GalleryDeleteSelect(p)
  \/ GalleryDeleteUpdate(p)
  \/ GalleryDeleteUnlink(p)
  \/ GalleryDeleteQueryFails(p)
  \/ GalleryGetStart(p, limit)
  \/ GalleryGetQuery(p)
  \/ GalleryGetCatch(p)
  \/ GalleryGetTimeout(p)
  \/ Return(p)

\* requests of several clients, interleaved at their await points
Next == (\E p \in Procs : Step(p, MaxReqs)) \/ Tick

Spec == Init /\ [][Next]_vars

\* one client whose requests run one after the other
NextSeq == (\E p \in SeqProcs : Step(p, MaxSeqReqs)) \/ Tick

SpecSeq == InitSeq /\ [][NextSeq]_vars

\* the admin reorders the gallery and reads it back
StepOrder(p, limit) ==
  \/ ReorderStart(p, limit)
  \/ ReorderUpdate(p)
  \/ ReorderQueryFails(p)
  \/ GalleryGetStart(p, limit)
  \/ GalleryGetQuery(p)
  \/ GalleryGetCatch(p)
  \/ GalleryGetTimeout(p)
  \/ Return(p)

NextOrder == \E p \in SeqProcs : StepOrder(p, MaxOrderReqs)

SpecOrder == InitOrder /\ [][NextOrder]_vars

\* an installation with a main image and a photo, and guestbook entries
\* of a visitor whose password is "a": one stored hashed, one written
\* before passwords were hashed
GuestbookSeed ==
  {GuestbookRow(1, "kim", hashPassword(<<"a">>), "congratulations", 1, NULL),
   GuestbookRow(2, "lee", <<"a">>, "best wishes", 1, NULL)}

InitSite ==
  /\ gallery \in SUBSET {r \in SeedRows : r.id \in {1, 3}}
  /\ nextId = Cardinality(SeedRows) + 1
  /\ nextGen = 2
  /\ files = {r.filename : r \in gallery}
  /\ now = 1
  /\ started = 0
  /\ NoRequests
  /\ guestbook \in SUBSET GuestbookSeed
  /\ gbNextId = Cardinality(GuestbookSeed) + 1
  /\ contacts = {}
  /\ apiCache = [u \in Urls |-> NoEntry]
  /\ clock = 0
  /\ sessions = {}
  /\ focused = TRUE
  /\ section = [s \in Sections |-> NoSection]

\* the read handlers
StepRead(p, limit) ==
  \/ GalleryGetStart(p, limit)
  \/ GalleryGetQuery(p)
  \/ GalleryGetCatch(p)
  \/ GalleryGetTimeout(p)
  \/ GuestbookGetStart(p, limit)
  \/ GuestbookGetQuery(p)
  \/ GuestbookGetCatch(p)
  \/ GuestbookGetTimeout(p)
  \/ ContactsGetStart(p, limit)
  \/ ContactsGetQuery(p)
  \/ ContactsGetCatch(p)
  \/ ContactsGetTimeout(p)
  \/ Return(p)

\* the handlers that write, the login and the health check
StepWrite(p, limit) ==
  \/ GalleryPostStart(p, limit)
  \/ GalleryPostSelect(p)
  \/ GalleryPostSoftDelete(p)
  \/ GalleryPostUnlink(p)
  \/ GalleryPostInsertMain(p)
  \/ GalleryPostMax(p)
  \/ GalleryPostInsertGallery(p)
  \/ GalleryPostQueryFails(p)
  \/ GalleryDeleteStart(p, limit)
  \/ GalleryDeleteSelect(p)
  \/ GalleryDeleteUpdate(p)
  \/ GalleryDeleteUnlink(p)
  \/ GalleryDeleteQueryFails(p)
  \/ GuestbookPostStart(p, limit)
  \/ GuestbookPostInsert(p)
  \/ GuestbookPostQueryFails(p)
  \/ GuestbookDeleteStart(p, limit)
  \/ GuestbookDeleteSelect(p)
  \/ GuestbookDeleteRehash(p)
  \/ GuestbookDeleteUpdate(p)
  \/ GuestbookDeleteQueryFails(p)
  \/ ContactsPostStart(p, limit)
  \/ ContactsPostInsert(p)
  \/ ContactsPostQueryFails(p)
  \/ LoginStart(p, limit)
  \/ LoginQuery(p)
  \/ LoginQueryFails(p)
  \/ Health(p, limit)

\* one visitor or admin whose requests run one after the other
NextSite ==
  \/ \E p \in SeqProcs : StepRead(p, MaxSiteReqs) \/ StepWrite(p, MaxSiteReqs)
  \/ Tick

SpecSite == InitSite /\ [][NextSite]_vars

\* page loads: only the read handlers, whose timers are certain to fire
\* while the race is pending
NextLive == \E p \in SeqProcs : StepRead(p, MaxLiveReqs)

SpecLive ==
  /\ InitSite
  /\ [][NextLive]_vars
  /\ \A p \in SeqProcs :
       /\ WF_vars(GalleryGetTimeout(p))
       /\ WF_vars(GuestbookGetTimeout(p))
       /\ WF_vars(ContactsGetTimeout(p))

\* an admin, or a client posing as one, who logs in and uploads
InitAdmin ==
  /\ gallery \in SUBSET {r \in SeedRows : r.id \in {1, 3}}
  /\ nextId = Cardinality(SeedRows) + 1
  /\ nextGen = 2
  /\ files = {r.filename : r \in gallery}
  /\ now = 1
  /\ started = 0
  /\ NoRequests
  /\ NoSite

StepAdmin(p, limit) ==
  \/ LoginStart(p, limit)
  \/ LoginQuery(p)
  \/ LoginQueryFails(p)
  \/ AdminUploadStart(p, limit)
  \/ AdminUploadSelect(p)
  \/ AdminUploadDelete(p)
  \/ AdminUploadUnlink(p)
  \/ AdminUploadSharp(p)
  \/ AdminUploadWrite(p)
  \/ AdminUploadMax(p)
  \/ AdminUploadInsertGallery(p)
  \/ AdminUploadInsertMain(p)
  \/ AdminUploadQueryFails(p)
  \/ Return(p)

NextAdmin == (\E p \in SeqProcs : StepAdmin(p, MaxAdminReqs)) \/ Tick

SpecAdmin == InitAdmin /\ [][NextAdmin]_vars

\* two admins who replace the main image and delete photos at the same
\* time, on an installation with a main image and a photo
StepRace(p, limit) ==
  \/ GalleryPostStart(p, limit)
  \/ GalleryPostSelect(p)
  \/ GalleryPostSoftDelete(p)
  \/ GalleryPostUnlink(p)
  \/ GalleryPostInsertMain(p)
  \/ GalleryPostMax(p)
  \/ GalleryPostInsertGallery(p)
  \/ GalleryPostQueryFails(p)
  \/ AdminUploadStart(p, limit)
  \/ AdminUploadSelect(p)
  \/ AdminUploadDelete(p)
  \/ AdminUploadUnlink(p)
  \/ AdminUploadSharp(p)
  \/ AdminUploadWrite(p)
  \/ AdminUploadMax(p)
  \/ AdminUploadInsertGallery(p)
  \/ AdminUploadInsertMain(p)
  \/ AdminUploadQueryFails(p)
  \/ GalleryDeleteStart(p, limit)
  \/ GalleryDeleteSelect(p)
  \/ GalleryDeleteUpdate(p)
  \/ GalleryDeleteUnlink(p)
  \/ GalleryDeleteQueryFails(p)
  \/ Return(p)

NextRace == \E p \in Procs : StepRace(p, MaxRaceReqs)

SpecRace == InitAdmin /\ [][NextRace]_vars

(***************************************************************************)
(* GET /api/uploads/:path*                                                 *)
(*                                                                         *)
(* A path segment is a sequence of characters.  The characters of the      *)
(* model are '.', '/', '\', the letter a, and the letter groups jpg and    *)
(* JPG, each kept together as one element.  A file path is a sequence of   *)
(* components, each a sequence of characters.                              *)
(***************************************************************************)
Chars == {".", "/", "\\", "a", "jpg", "JPG"}

RECURSIVE Strings(_)
\* the strings of at most n characters
Strings(n) ==
  IF n = 0 THEN {<<>>}
  ELSE LET shorter == Strings(n - 1) IN
       shorter \cup {<<c>> \o s : c \in Chars, s \in {t \in shorter : Len(t) = n - 1}}

\* the segment lists a request may carry: one segment, or a directory
\* segment and a file segment
PathInputs ==
  {<<s>> : s \in Strings(MaxSegLen)}
    \cup {<<d, s>> : d \in Strings(MaxSegLen - 1), s \in Strings(MaxSegLen)}

RECURSIVE RemoveDotDot(_)
\* p.replace(/\.\./g, ''): the pairs of dots, leftmost first
RemoveDotDot(s) ==
  IF Len(s) < 2 THEN s
  ELSE IF s[1] = "." /\ s[2] = "." THEN RemoveDotDot(SubSeq(s, 3, Len(s)))
  ELSE <<s[1]>> \o RemoveDotDot(Tail(s))

\* .replace(/[\/\\]/g, '')
RemoveSlashes(s) == LET Keep(c) == c \notin {"/", "\\"} IN SelectSeq(s, Keep)

\* sanitizedPath = path.map(...)
Sanitize(path) == [i \in 1..Len(path) |-> RemoveSlashes(RemoveDotDot(path[i]))]

\* p.includes('..') || p.includes('/') || p.includes('\\')
Suspicious(s) ==
  \/ \E i \in 1..(Len(s) - 1) : s[i] = "." /\ s[i + 1] = "."
  \/ \E i \in 1..Len(s) : s[i] \in {"/", "\\"}

\* filename.toLowerCase()
ToLowerCase(s) == [i \in 1..Len(s) |-> IF s[i] = "JPG" THEN "jpg" ELSE s[i]]

\* s.substring(s.lastIndexOf('.')): from the last dot, or all of s when
\* there is no dot (substring(-1) is substring(0))
FromLastDot(s) ==
  LET dots == {i \in 1..Len(s) : s[i] = "."} IN
  IF dots = {} THEN s
  ELSE SubSeq(s, CHOOSE i \in dots : \A j \in dots : j <= i, Len(s))

allowedExtensions ==
  {<<".", "jpg">>, <<".", "jpeg">>, <<".", "png">>, <<".", "webp">>,
   <<".", "gif">>}

\* '/app/public/uploads'
uploadsDir == <<<<"app">>, <<"public">>, <<"uploads">>>>

RECURSIVE Split(_)
\* the components of a segment: its pieces between '/' characters
Split(s) ==
  LET slashes == {i \in 1..Len(s) : s[i] = "/"} IN
  IF slashes = {} THEN <<s>>
  ELSE LET i == CHOOSE k \in slashes : \A j \in slashes : k <= j
       IN <<SubSeq(s, 1, i - 1)>> \o Split(SubSeq(s, i + 1, Len(s)))

RECURSIVE Normalize(_, _)
\* path.normalize on an absolute path: empty and '.' components are
\* dropped, '..' removes the component before it (none at the root)
Normalize(done, rest) ==
  IF rest = <<>> THEN done
  ELSE LET c == Head(rest) IN
       IF c = <<>> \/ c = <<".">> THEN Normalize(done, Tail(rest))
       ELSE IF c = <<".", ".">>
         THEN Normalize(IF done = <<>> THEN done
                        ELSE SubSeq(done, 1, Len(done) - 1), Tail(rest))
       ELSE Normalize(Append(done, c), Tail(rest))

RECURSIVE Components(_)
Components(path) ==
  IF path = <<>> THEN <<>> ELSE Split(Head(path)) \o Components(Tail(path))

\* join(dir, ...segments), which is also resolve(...) of the result
Join(dir, path) == Normalize(<<>>, dir \o Components(path))

RECURSIVE PathString(_)
\* the path as a string: '/' before each component
PathString(comps) ==
  IF comps = <<>> THEN <<>>
  ELSE <<"/">> \o Head(comps) \o PathString(Tail(comps))

\* a.startsWith(b)
StartsWith(a, b) == Len(a) >= Len(b) /\ SubSeq(a, 1, Len(b)) = b

\* the segments joined onto the uploads directory without any check
UploadsFilePathUnchecked(path) == [status |-> 0, file |-> Join(uploadsDir, path)]

\* the checks before the file is touched: status 400 or 403 of the
\* rejection, or status 0 and filePath
UploadsFilePath(path) ==
  LET sanitizedPath == Sanitize(path)
      filename == sanitizedPath[Len(sanitizedPath)]
      filePath == Join(uploadsDir, sanitizedPath)
  IN IF \E i \in 1..Len(sanitizedPath) : Suspicious(sanitizedPath[i])
       THEN [status |-> 400, file |-> <<>>]
     ELSE IF FromLastDot(ToLowerCase(filename)) \notin allowedExtensions
       THEN [status |-> 403, file |-> <<>>]
     ELSE IF ~StartsWith(PathString(filePath), PathString(uploadsDir))
       THEN [status |-> 403, file |-> <<>>]
     ELSE [status |-> 0, file |-> filePath]

\* new NextResponse(text, { status }): not a JSON body
Text(status) ==
  [status |-> status, keys |-> {}, success |-> FALSE, data |-> <<>>,
   error |-> ""]

UploadsGetStart(p, limit) ==
  /\ Begin(p, limit)
  /\ \E path \in PathInputs :
       LET r == UploadsFilePath(path) IN
       /\ req' = [req EXCEPT ![p] = [NoReq EXCEPT !.op = "GET /api/uploads",
                                                !.path = path]]
       /\ IF r.status # 0
            THEN /\ Respond(p, Text(r.status))
                 /\ loc' = [loc EXCEPT ![p] = NoLoc]
            ELSE /\ Goto(p, "ug_access")
                 /\ loc' = [loc EXCEPT ![p] = [NoLoc EXCEPT !.existing = {r.file}]]
  /\ UNCHANGED <<site, galleryState, now>>

\* await access(filePath): it throws when the file cannot be reached
UploadsGetAccess(p) ==
  /\ At(p, "ug_access")
  /\ \E exists \in BOOLEAN :
       IF exists THEN Goto(p, "ug_read") ELSE Respond(p, Text(404))
  /\ UNCHANGED <<site, galleryState, started, now, req, loc>>

\* await readFile(filePath): the file is served, or the outer catch
\* answers 500 (a directory, a file removed meanwhile)
UploadsGetRead(p) ==
  /\ At(p, "ug_read")
  /\ loc' = [loc EXCEPT ![p].read = CHOOSE f \in loc[p].existing : TRUE]
  /\ \E ok \in BOOLEAN :
       IF ok THEN Respond(p, Text(200)) ELSE Respond(p, Text(500))
  /\ UNCHANGED <<site, galleryState, started, now, req>>

\* requests for uploaded files
NextUploads ==
  \E p \in SeqProcs :
    \/ UploadsGetStart(p, MaxUploadsReqs)
    \/ UploadsGetAccess(p)
    \/ UploadsGetRead(p)
    \/ Return(p)

SpecUploads == Init /\ [][NextUploads]_vars

(***************************************************************************)
(* The plain file-serving handler (src/unnamed/part_003): the same GET     *)
(* with no sanitising, no extension list and no check of the resolved      *)
(* path.                                                                   *)
(***************************************************************************)
\* const filePath = join(uploadsDir, ...path)
ServeFilePath(path) == Join(uploadsDir, path)

ServeGetStart(p, limit) ==
  /\ Begin(p, limit)
  /\ \E path \in PathInputs :
       /\ req' = [req EXCEPT ![p] = [NoReq EXCEPT !.op = "GET uploads (join)",
                                                !.path = path]]
       /\ loc' = [loc EXCEPT ![p] =
                    [NoLoc EXCEPT !.existing = {ServeFilePath(path)}]]
       /\ Goto(p, "sv_access")
  /\ UNCHANGED <<site, galleryState, now>>

\* await access(filePath) in its own try/catch: 404 when it throws
ServeGetAccess(p) ==
  /\ At(p, "sv_access")
  /\ \E exists \in BOOLEAN :
       IF exists THEN Goto(p, "sv_read") ELSE Respond(p, Text(404))
  /\ UNCHANGED <<site, galleryState, started, now, req, loc>>

\* await readFile(filePath): the file is served, or the outer catch
\* answers 500
ServeGetRead(p) ==
  /\ At(p, "sv_read")
  /\ loc' = [loc EXCEPT ![p].read = CHOOSE f \in loc[p].existing : TRUE]
  /\ \E ok \in BOOLEAN :
       IF ok THEN Respond(p, Text(200)) ELSE Respond(p, Text(500))
  /\ UNCHANGED <<site, galleryState, started, now, req>>

NextServe ==
  \E p \in SeqProcs :
    \/ ServeGetStart(p, MaxServeReqs)
    \/ ServeGetAccess(p)
    \/ ServeGetRead(p)
    \/ Return(p)

SpecServe == Init /\ [][NextServe]_vars

(***************************************************************************)
(* fetchWithCache(url, forceRefresh) of the page sections.  The gallery    *)
(* section and the guestbook section each keep a module-level apiCache and *)
(* a copy of the function; the copies differ in that the gallery one       *)
(* returns the cached data when its request timed out.  A call returns     *)
(* (success, data) or throws (failure, error).                             *)
(***************************************************************************)
\* bodies a server may answer with
Bodies == {"v1", "v2"}

\* the test with the boundary included
FreshInclusive(entry, t) ==
  entry.present /\ t - entry.timestamp <= CACHE_DURATION

\* cached && now - cached.timestamp < CACHE_DURATION
Fresh(entry, t) == entry.present /\ t - entry.timestamp < CACHE_DURATION

\* `return data` / `return cached.data`
Returned(d) ==
  [status |-> 0, keys |-> {}, success |-> TRUE, data |-> <<d>>, error |-> ""]

\* `throw error`
Thrown(cause) ==
  [status |-> 0, keys |-> {}, success |-> FALSE, data |-> <<>>, error |-> cause]

\* now, cached, and the test whether the cached data are returned
FetchStart(p, limit) ==
  /\ Begin(p, limit)
  /\ \E url \in Urls, forceRefresh \in BOOLEAN :
       LET cached == apiCache[url] IN
       /\ req' = [req EXCEPT ![p] = [NoReq EXCEPT !.op = "fetchWithCache",
                                 !.url = url, !.forceRefresh = forceRefresh]]
       /\ loc' = [loc EXCEPT ![p] = [NoLoc EXCEPT !.t = clock, !.cached = cached]]
       /\ IF ~forceRefresh /\ Fresh(cached, clock)
            THEN Respond(p, Returned(cached.data))
            ELSE Goto(p, "fc_fetch")
  /\ UNCHANGED <<site, galleryState, now>>

\* await fetch(url, { signal }): a response arrives, the network fails, or
\* the 10 s timer aborts the request; the gallery copy returns the cached
\* data after an abort
FetchSettles(p) ==
  /\ At(p, "fc_fetch")
  /\ \E o \in {"ok", "http", "network", "timeout"} :
       /\ loc' = [loc EXCEPT ![p].fs = o, ![p].fetched = TRUE]
       /\ IF o = "ok" THEN Goto(p, "fc_json")
          ELSE IF o = "timeout" /\ req[p].url = "/api/gallery"
                               /\ loc[p].cached.present
            THEN Respond(p, Returned(loc[p].cached.data))
          ELSE Respond(p, Thrown(o))
  /\ UNCHANGED <<site, galleryState, started, now, req>>

\* await response.json(), then apiCache.set(url, { data, timestamp: now })
FetchJson(p) ==
  /\ At(p, "fc_json")
  /\ \E parses \in BOOLEAN :
       IF parses
         THEN \E d \in Bodies :
           /\ apiCache' = [apiCache EXCEPT ![req[p].url] =
                             [present |-> TRUE, data |-> d, timestamp |-> loc[p].t]]
           /\ Respond(p, Returned(d))
           /\ UNCHANGED loc
         ELSE /\ loc' = [loc EXCEPT ![p].fs = "parse"]
              /\ Respond(p, Thrown("parse"))
              /\ UNCHANGED apiCache
  /\ UNCHANGED <<focused, section, sessions, guestbook, gbNextId, contacts, clock, galleryState, started,
                 now, req>>

\* the browser's clock advances by half the cache duration
ClockTick ==
  /\ Quiet
  /\ clock < MaxClockTicks * (CACHE_DURATION \div 2)
  /\ clock' = clock + CACHE_DURATION \div 2
  /\ UNCHANGED <<focused, section, sessions, guestbook, gbNextId, contacts, apiCache, galleryState, now,
                 started, pc, req, loc, resp>>

\* the page sections load and refresh their data
NextCache ==
  \/ \E p \in Procs :
       \/ FetchStart(p, MaxFetches)
       \/ FetchSettles(p)
       \/ FetchJson(p)
       \/ Return(p)
  \/ ClockTick

SpecCache == Init /\ [][NextCache]_vars

(***************************************************************************)
(* LazyGallerySection and LazyGuestbookSection.  A step is an event (the   *)
(* section scrolls into view, the window gains or loses focus, an interval *)
(* timer fires, a promise settles, the section unmounts) together with the *)
(* render and the effects that follow it.  useIntersectionObserver is not  *)
(* among the source files: with triggerOnce its shouldLoad turns true once *)
(* and stays true.                                                         *)
(***************************************************************************)
\* the url a section fetches
SectionUrl(s) == IF s = "gallery" THEN "/api/gallery" ELSE "/api/guestbook"

\* setLoading(v); a state setter of an unmounted component does nothing
SetLoading(sec, v) == IF sec.mounted THEN [sec EXCEPT !.loading = v] ELSE sec

\* setHasLoaded(true)
SetHasLoaded(sec) == IF sec.mounted THEN [sec EXCEPT !.hasLoaded = TRUE] ELSE sec

\* setLoading(true), then fetchWithCache(url, forceRefresh) up to its
\* first await: a fresh entry is returned, otherwise the request is sent
StartCall(s, sec, kind, forceRefresh) ==
  LET cached == apiCache[SectionUrl(s)]
      phase == IF ~forceRefresh /\ Fresh(cached, clock) THEN "hit" ELSE "fetch"
  IN [SetLoading(sec, TRUE) EXCEPT
        !.calls = Append(@, [kind |-> kind, phase |-> phase, t |-> clock,
                             cached |-> cached]),
        !.initialFetches = IF kind = "initial" THEN @ + 1 ELSE @,
        !.refreshes = IF kind = "refresh" THEN @ + 1 ELSE @]

\* useEffect(() => { if (shouldLoad && !hasLoaded) ... },
\*           [shouldLoad, hasLoaded])
LoadEffect(s, sec) ==
  IF sec.shouldLoad /\ ~sec.hasLoaded
    THEN StartCall(s, sec, "initial", FALSE)
    ELSE sec

\* handleFocus without its clearInterval
HandleFocusKeepsTimer(sec) ==
  [sec EXCEPT !.timers = @ \cup {sec.timerIds + 1},
              !.interval = sec.timerIds + 1,
              !.timerIds = @ + 1]

\* handleFocus: if (interval) clearInterval(interval);
\*              interval = setInterval(..., 5 * 60 * 1000)
HandleFocus(sec) ==
  [sec EXCEPT !.timers = (@ \ {sec.interval}) \cup {sec.timerIds + 1},
              !.interval = sec.timerIds + 1,
              !.timerIds = @ + 1]

\* handleBlur, and the catch block of the interval callback:
\* if (interval) { clearInterval(interval); interval = null }
HandleBlur(sec) ==
  [sec EXCEPT !.timers = @ \ {sec.interval}, !.interval = NULL]

\* the refresh effect of the gallery section, run when hasLoaded changed:
\* the listeners are added and, if the document has focus, handleFocus
RefreshEffect(s, sec) ==
  IF s # "gallery" \/ ~sec.hasLoaded THEN sec
  ELSE LET on == [sec EXCEPT !.listening = TRUE, !.interval = NULL] IN
       IF focused THEN HandleFocus(on) ELSE on

\* the effects whose dependencies changed in the render from old to new
RunEffects(s, old, new) ==
  LET l == IF <<new.shouldLoad, new.hasLoaded>> # <<old.shouldLoad, old.hasLoaded>>
             THEN LoadEffect(s, new) ELSE new
  IN IF new.hasLoaded # old.hasLoaded THEN RefreshEffect(s, l) ELSE l

\* how the promise of fetchGallery(forceRefresh) settles when fetchWithCache
\* returned or threw: its catch block logs the error, so it resolves
FetchGalleryOutcome(threw) == "resolved"

\* a sequence without its i-th element
RemoveAt(seq, i) == SubSeq(seq, 1, i - 1) \o SubSeq(seq, i + 1, Len(seq))

\* fetchWithCache has returned or thrown in call i: the catch and finally
\* blocks of the caller, then for the initial call setHasLoaded(true) and
\* for a refresh the try/catch of the interval callback; failed = the
\* request did not bring a response that parsed
Finish(s, sec, i, threw, failed) ==
  LET call == sec.calls[i]
      a == SetLoading([sec EXCEPT !.calls = RemoveAt(@, i)], FALSE)
      b == IF call.kind = "initial" THEN SetHasLoaded(a)
           ELSE LET r == [a EXCEPT !.refreshFailed = failed] IN
                IF FetchGalleryOutcome(threw) = "rejected" /\ r.interval # NULL
                  THEN HandleBlur(r) ELSE r
  IN RunEffects(s, sec, b)

\* the state the page steps leave alone
serverState ==
  <<galleryState, now, started, pc, req, loc, resp, guestbook, gbNextId,
    contacts, sessions>>

\* the section scrolls into view
Intersect(s) ==
  /\ section[s].mounted /\ ~section[s].shouldLoad
  /\ section' = [section EXCEPT ![s] =
                   RunEffects(s, @, [@ EXCEPT !.shouldLoad = TRUE])]
  /\ UNCHANGED <<serverState, apiCache, clock, focused>>

\* the window receives focus
PageFocus ==
  /\ \A s \in Sections : section[s].timerIds < MaxTimers
  /\ focused' = TRUE
  /\ section' = [s \in Sections |->
                   IF section[s].listening
                     THEN HandleFocus([section[s] EXCEPT !.refreshFailed = FALSE])
                     ELSE section[s]]
  /\ UNCHANGED <<serverState, apiCache, clock>>

\* the window loses focus
PageBlur ==
  /\ focused' = FALSE
  /\ section' = [s \in Sections |->
                   IF section[s].listening /\ section[s].interval # NULL
                     THEN HandleBlur(section[s])
                     ELSE section[s]]
  /\ UNCHANGED <<serverState, apiCache, clock>>

\* an interval timer fires: await fetchGallery(true)
TimerFires(s) ==
  /\ section[s].timers # {}
  /\ section[s].refreshes < MaxRefreshes
  /\ section' = [section EXCEPT ![s] = StartCall(s, @, "refresh", TRUE)]
  /\ UNCHANGED <<serverState, apiCache, clock, focused>>

\* `return cached.data` reaches the caller
CallCached(s, i) ==
  /\ i \in 1..Len(section[s].calls)
  /\ section[s].calls[i].phase = "hit"
  /\ section' = [section EXCEPT ![s] = Finish(s, @, i, FALSE, FALSE)]
  /\ UNCHANGED <<serverState, apiCache, clock, focused>>

\* await fetch(...) settles: a response arrives and the 10 s timer is
\* cleared, or the request fails, or the timer aborts it
CallSettles(s, i) ==
  /\ i \in 1..Len(section[s].calls)
  /\ section[s].calls[i].phase = "fetch"
  /\ \E o \in {"ok", "http", "network", "timeout"} :
       section' = [section EXCEPT ![s] =
         IF o = "ok" THEN [@ EXCEPT !.calls[i].phase = "json"]
         ELSE IF o = "timeout" /\ s = "gallery" /\ @.calls[i].cached.present
           THEN Finish(s, @, i, FALSE, TRUE)
           ELSE Finish(s, @, i, TRUE, TRUE)]
  /\ UNCHANGED <<serverState, apiCache, clock, focused>>

\* await response.json() settles, then apiCache.set(url, { data, timestamp })
CallJson(s, i) ==
  /\ i \in 1..Len(section[s].calls)
  /\ section[s].calls[i].phase = "json"
  /\ \E parses \in BOOLEAN :
       IF parses
         THEN \E d \in Bodies :
           /\ apiCache' = [apiCache EXCEPT ![SectionUrl(s)] =
                             [present |-> TRUE, data |-> d,
                              timestamp |-> section[s].calls[i].t]]
           /\ section' = [section EXCEPT ![s] = Finish(s, @, i, FALSE, FALSE)]
         ELSE /\ section' = [section EXCEPT ![s] = Finish(s, @, i, TRUE, TRUE)]
              /\ UNCHANGED apiCache
  /\ UNCHANGED <<serverState, clock, focused>>

\* the section unmounts: the clean-up of the refresh effect clears the
\* interval and removes the listeners
Unmount(s) ==
  /\ section[s].mounted
  /\ section' = [section EXCEPT ![s] =
                   [@ EXCEPT !.mounted = FALSE, !.listening = FALSE,
                             !.timers = @ \ {section[s].interval}]]
  /\ UNCHANGED <<serverState, apiCache, clock, focused>>

\* a page opened with or without the focus, the cache empty or holding
\* what an earlier visit of the page stored, just now or five minutes ago
InitPage ==
  /\ gallery = {}
  /\ nextId = 1
  /\ nextGen = 0
  /\ files = {OtherName}
  /\ now = 1
  /\ started = 0
  /\ NoRequests
  /\ guestbook = {}
  /\ gbNextId = 1
  /\ contacts = {}
  /\ sessions = {}
  /\ clock \in {0, CACHE_DURATION}
  /\ apiCache \in [Urls -> {NoEntry, [present |-> TRUE, data |-> "v1",
                                       timestamp |-> 0]}]
  /\ focused \in BOOLEAN
  /\ section = [s \in Sections |-> NoSection]

NextPage ==
  \/ \E s \in Sections :
       \/ Intersect(s)
       \/ TimerFires(s)
       \/ \E i \in 1..(MaxRefreshes + 1) :
            CallCached(s, i) \/ CallSettles(s, i) \/ CallJson(s, i)
       \/ Unmount(s)
  \/ PageFocus
  \/ PageBlur

\* the 10 s timer of fetchWithCache settles a pending fetch, and a promise
\* that is already resolved reaches its caller
SpecPage ==
  /\ InitPage
  /\ [][NextPage]_vars
  /\ \A s \in Sections :
       /\ WF_vars(\E i \in 1..(MaxRefreshes + 1) : CallSettles(s, i))
       /\ WF_vars(\E i \in 1..(MaxRefreshes + 1) : CallCached(s, i))

(***************************************************************************)
(* Properties.                                                             *)
(***************************************************************************)
\* request p adds a main image through either endpoint
IsMainAdd(p) ==
  /\ req[p].op \in {"POST /api/gallery", "POST /api/admin/upload"}
  /\ req[p].image_type = "main"

\* request p has just been answered with success
Succeeded(p, op) == pc[p] = "done" /\ req[p].op = op /\ resp[p].success

\* the row request p inserted
NewRow(p) == CHOOSE r \in gallery : r.id = loc[p].newId

\* C1: when main-image additions run one after the other, from any initial
\* table, then after each addition (a request that answered success, or
\* that ran its UPDATE/DELETE of the old main rows before failing) the
\* table has at most one row with image_type = main and deleted_at NULL.
C1_SequentialMainAdditions ==
  \A p \in SeqProcs :
    (pc[p] = "done" /\ IsMainAdd(p) /\ (resp[p].success \/ loc[p].removed))
      => Cardinality(LiveMains(gallery)) <= 1

\* C1 witness: a main image was added to a table that held two live main
\* rows, and one live main row is left.
C1_Witness ==
  \E p \in SeqProcs :
    /\ pc[p] = "done" /\ IsMainAdd(p) /\ resp[p].success
    /\ req[p].op = "POST /api/gallery"
    /\ loc[p].found = 2
    /\ Cardinality(LiveMains(gallery)) = 1

\* C2: at any time, also while main-image additions interleave, the table
\* has zero or one row with image_type = main and deleted_at NULL.
C2_AtMostOneLiveMain == Cardinality(LiveMains(gallery)) <= 1

\* C3: a successful GET /api/gallery response holds only rows whose
\* deleted_at is NULL.
C3_GetOmitsDeletedRows ==
  \A p \in SeqProcs :
    Succeeded(p, "GET /api/gallery") =>
      \A i \in 1..Len(resp[p].data) :
        \E r \in gallery : r.id = resp[p].data[i].id /\ r.deleted_at = NULL

\* C4: when a request adding a main image removes the old main rows, every
\* main row that was live stays in the table with deleted_at set, and no
\* step removes a row from the table.
C4_ReplacedMainsAreKept ==
  [][/\ {r.id : r \in gallery} \subseteq {r.id : r \in gallery'}
     /\ \A p \in SeqProcs :
          (IsMainAdd(p) /\ ~loc[p].removed /\ loc'[p].removed) =>
            \A r \in LiveMains(gallery) :
              \E r2 \in gallery' : r2.id = r.id /\ r2.deleted_at # NULL]_vars

\* 1 + the largest order_index of the live gallery rows, 1 without one
NextOrderIndex(g) ==
  LET used == {r.order_index : r \in g} \ {NULL}
      live == {r.order_index : r \in
                 {x \in g : x.deleted_at = NULL /\ x.image_type = "gallery"}}
                \ {NULL}
  IN IF live = {} THEN 1
     ELSE 1 + (CHOOSE m \in used : m \in live /\ \A v \in live : v <= m)

\* C5: POST /api/gallery with image_type gallery (or omitted) inserts one
\* live gallery row whose order_index is 1 + the largest order_index of the
\* live gallery rows (1 without one), and changes no existing row.
C5_GalleryPostOrderIndex ==
  [][\A p \in SeqProcs :
       (pc[p] \in {"gp_max", "gp_insert_gallery"}) =>
         IF pc'[p] = "done" /\ resp'[p].success
           THEN \E new \in gallery' \ gallery :
                  /\ gallery' = gallery \cup {new}
                  /\ new.image_type = "gallery"
                  /\ new.filename = req[p].filename
                  /\ new.deleted_at = NULL
                  /\ new.order_index = NextOrderIndex(gallery)
           ELSE gallery' = gallery]_vars

\* C5 witness: the row was inserted with order_index 2 next to a live row
\* with order_index 1 and a soft-deleted row with order_index 2.
C5_Witness ==
  \E p \in SeqProcs :
    /\ Succeeded(p, "POST /api/gallery") /\ req[p].image_type = "gallery"
    /\ NewRow(p).order_index = 2
    /\ \E a, b \in gallery \ {NewRow(p)} :
         /\ a.image_type = "gallery" /\ a.deleted_at = NULL /\ a.order_index = 1
         /\ b.image_type = "gallery" /\ b.deleted_at # NULL /\ b.order_index = 2

\* C6: a gallery upload through POST /api/admin/upload gives its row the
\* order_index POST /api/gallery would give in the same table.
C6_AdminUploadSameOrderIndex ==
  \A p \in SeqProcs :
    (Succeeded(p, "POST /api/admin/upload") /\ req[p].image_type = "gallery")
      => NewRow(p).order_index = GalleryMaxOrder(gallery \ {NewRow(p)}) + 1

\* C7: no two live gallery rows share an order_index, also when gallery
\* inserts interleave.
C7_OrderIndexUnique ==
  \A a, b \in LiveGallery(gallery) :
    a.id # b.id => a.order_index # b.order_index

\* the ids of a listing that are in the list ids, in listing order
ListedIds(listing, ids) ==
  LET InIds(x) == \E k \in 1..Len(ids) : ids[k] = x
  IN SelectSeq([i \in 1..Len(listing) |-> listing[i].id], InIds)

\* C8: after a successful reorder(ids), the k-th id has the k-th
\* order_index of a run from the base, rows not in ids are as before, and
\* GET /api/gallery lists the rows of ids in the order of ids.
C8_ReorderThenGetOrder ==
  \A p \in SeqProcs :
    Succeeded(p, "PUT /api/admin/gallery") =>
      LET ids == req[p].ids IN
      /\ \A k \in 1..Len(ids) : \A r \in gallery :
           r.id = ids[k] => r.order_index = req[p].base + k - 1
      /\ \A r \in gallery :
           (\A k \in 1..Len(ids) : ids[k] # r.id) => r \in loc[p].before
      /\ \A listing \in Listings(GalleryGetRows(gallery)) :
           ListedIds(listing, ids) = ids

\* C9: a successful GET /api/gallery lists main rows before gallery rows,
\* gallery rows with an order_index by ascending order_index, and gallery
\* rows without one by ascending created_at.
C9_GetOrdering ==
  \A p \in SeqProcs :
    Succeeded(p, "GET /api/gallery") =>
      LET d == resp[p].data IN
      \A i, j \in 1..Len(d) :
        i < j =>
          /\ ~(d[i].image_type = "gallery" /\ d[j].image_type = "main")
          /\ (d[i].image_type = "gallery" /\ d[j].image_type = "gallery") =>
               /\ (d[i].order_index # NULL /\ d[j].order_index # NULL)
                    => d[i].order_index <= d[j].order_index
               /\ (d[i].order_index = NULL /\ d[j].order_index = NULL)
                    => d[i].created_at <= d[j].created_at

\* C10: a DELETE /api/gallery?id=X that found the live row and ran its
\* UPDATE answers 200 success:true and leaves the row soft-deleted, whether
\* the file was unlinked, was missing, or could not be unlinked.
C10_DeleteSurvivesFileErrors ==
  \A p \in Procs :
    (pc[p] = "done" /\ req[p].op = "DELETE /api/gallery" /\ loc[p].removed)
      => /\ resp[p].success
         /\ resp[p].status = 200
         /\ \A r \in gallery : r.id = req[p].id => r.deleted_at # NULL

\* C10 witness: the DELETE was answered after unlink failed on a file
\* that is still there, and the row is soft-deleted.
C10_Witness ==
  \E p \in Procs :
    /\ Succeeded(p, "DELETE /api/gallery")
    /\ loc[p].fs = "failed"
    /\ \E r \in gallery :
         r.id = req[p].id /\ r.deleted_at # NULL /\ r.filename \in files

\* C11: GET /api/gallery answers HTTP 200 with success = true, and with
\* data = [] when the query rejected or the 10-second timer fired first; it
\* never answers success = false.
C11_GalleryGetSwallowsErrors ==
  \A p \in Procs :
    (pc[p] = "done" /\ req[p].op = "GET /api/gallery") =>
      /\ resp[p].success
      /\ resp[p].status = 200
      /\ "success" \in resp[p].keys
      /\ loc[p].fs \in {"rejected", "timeout"} => resp[p].data = <<>>

\* C11 witness: the timer fired on a read of a table that holds a row, and
\* the answer is the empty list.
C11_Witness ==
  \E p \in Procs :
    /\ Succeeded(p, "GET /api/gallery")
    /\ loc[p].fs = "timeout"
    /\ gallery # {}
    /\ resp[p].data = <<>>

\* C12: every GET /api/gallery, GET /api/guestbook and GET /api/contacts
\* request that waits for its database query is eventually answered, also
\* when the query never settles, given that the 10-second timer fires.
C12_ReadsEventuallyAnswer ==
  \A p \in SeqProcs :
    (pc[p] \in {"gg_query", "gbg_query", "cg_query"}) ~> (pc[p] = "done")

\* C12 witness: a guestbook read whose query had not settled was answered
\* by the timer.
C12_Witness ==
  \E p \in SeqProcs :
    /\ pc[p] = "done"
    /\ req[p].op = "GET /api/guestbook"
    /\ loc[p].fs = "timeout"
    /\ resp[p].status = 500

\* the endpoints that change a table
MutationOps ==
  {"POST /api/gallery", "DELETE /api/gallery", "POST /api/guestbook",
   "DELETE /api/guestbook", "POST /api/contacts"}

\* the response reports a failure with a message
SurfacesFailure(r) == ~r.success /\ r.error # "" /\ "error" \in r.keys

\* C13 as stated: whenever a database query issued by a mutation endpoint
\* fails, the response has success = false with a non-empty error message.
C13_MutationsSurfaceFailures ==
  \A p \in SeqProcs :
    (pc[p] = "done" /\ req[p].op \in MutationOps /\ loc[p].qfail)
      => SurfacesFailure(resp[p])

\* C13 amended: whenever a database query issued by a mutation endpoint
\* fails, other than the UPDATE that re-hashes a legacy plaintext password
\* in DELETE /api/guestbook, the response has success = false with a
\* non-empty error message; a failure of that re-hash alone is ignored and
\* the deletion is answered with success = true.
C13_MutationsSurfaceFailuresButRehash ==
  \A p \in SeqProcs :
    (pc[p] = "done" /\ req[p].op \in MutationOps /\ loc[p].qfail)
      => IF loc[p].fs = "rehash"
           THEN /\ resp[p].success
                /\ req[p].op = "DELETE /api/guestbook"
                /\ \A r \in guestbook : r.id = req[p].id => r.deleted_at # NULL
           ELSE SurfacesFailure(resp[p])

\* C13 witness: the UPDATE that sets deleted_at was rejected after the
\* password check passed, and the answer is a 500 with a message.
C13_Witness ==
  \E p \in SeqProcs :
    /\ pc[p] = "done" /\ req[p].op = "DELETE /api/guestbook"
    /\ loc[p].qfail /\ loc[p].fs = "rejected" /\ loc[p].found = 1
    /\ PasswordMatch(req[p].password, loc[p].stored)
    /\ resp[p].status = 500 /\ SurfacesFailure(resp[p])

\* the stored password is P itself or a hash of P
StoredMatches(pw, stored) == stored = pw \/ verifyPassword(pw, stored)

\* C14: when DELETE /api/guestbook?id=X&password=P finds the live entry X
\* and its stored password, hashed or legacy plaintext, does not match P,
\* the answer is 401 and the guestbook table is left as it was (the row
\* keeps deleted_at NULL and its password, name and content).
C14_WrongPasswordLeavesRow ==
  [][\A p \in SeqProcs :
       /\ (/\ pc[p] = "gbd_select" /\ pc'[p] # "gbd_select" /\ ~loc'[p].qfail
           /\ \E r \in LiveEntry(guestbook, req[p].id) :
                 ~StoredMatches(req[p].password, r.password))
            => /\ pc'[p] = "done"
               /\ resp'[p].status = 401
               /\ ~resp'[p].success
               /\ guestbook' = guestbook
       /\ (req[p].op = "DELETE /api/guestbook" /\ guestbook' # guestbook)
            => StoredMatches(req[p].password, loc[p].stored)]_vars

\* C14 witness: a wrong password was sent for an entry with a legacy
\* plaintext password; the answer is 401 and the entry is live, unchanged.
C14_Witness ==
  \E p \in SeqProcs :
    /\ pc[p] = "done" /\ req[p].op = "DELETE /api/guestbook"
    /\ resp[p].status = 401
    /\ ~IncludesColon(loc[p].stored)
    /\ req[p].password # loc[p].stored
    /\ \E r \in LiveEntry(guestbook, req[p].id) : r.password = loc[p].stored

\* C14 second case reached as well: a wrong password against a hash.
C14_WitnessHashed ==
  \E p \in SeqProcs :
    /\ pc[p] = "done" /\ req[p].op = "DELETE /api/guestbook"
    /\ resp[p].status = 401
    /\ IncludesColon(loc[p].stored)
    /\ \E r \in LiveEntry(guestbook, req[p].id) : r.password = loc[p].stored

\* the file lies under the uploads directory
InsideUploads(file) ==
  /\ Len(file) > Len(uploadsDir)
  /\ SubSeq(file, 1, Len(uploadsDir)) = uploadsDir

\* C15: for every list of path segments, GET /api/uploads either answers
\* 400, 403 or 404 without reading a file, or reads a file that lies inside
\* the uploads directory; it never touches a file outside of it.
C15_UploadsStayInsideRoot ==
  \A p \in SeqProcs :
    req[p].op = "GET /api/uploads" =>
      /\ \A f \in loc[p].existing : InsideUploads(f)
      /\ pc[p] = "done" =>
           IF loc[p].read = <<>>
             THEN resp[p].status \in {400, 403, 404}
             ELSE InsideUploads(loc[p].read)

\* C15 witness: the segment '.\.' was rejected with 400: it turns into
\* '..' when its backslash is removed.
C15_Witness ==
  \E p \in SeqProcs :
    /\ pc[p] = "done" /\ req[p].op = "GET /api/uploads"
    /\ req[p].path = <<<<".", "\\", ".">>>>
    /\ resp[p].status = 400
    /\ loc[p].read = <<>>

\* C15, the other outcome reached as well: of the segments '..' and 'a.JPG'
\* the first is emptied, and 'a.JPG' was read in the uploads directory.
C15_WitnessRead ==
  \E p \in SeqProcs :
    /\ pc[p] = "done" /\ req[p].op = "GET /api/uploads"
    /\ req[p].path = <<<<".", ".">>, <<"a", ".", "JPG">>>>
    /\ resp[p].status = 200
    /\ loc[p].read = Append(uploadsDir, <<"a", ".", "JPG">>)

\* the two upload endpoints
UploadOps == {"POST /api/upload/image", "POST /api/admin/upload"}

\* C16: an upload of a file larger than 50MB, or of a MIME type other than
\* JPEG, PNG or WebP, is rejected with status 400, writes no file and
\* inserts no gallery row, at both upload endpoints (no database query of
\* the request being rejected).
C16_UploadsRejectBadFiles ==
  \A p \in SeqProcs :
    (/\ pc[p] = "done" /\ req[p].op \in UploadOps /\ req[p].file.present
     /\ ~loc[p].qfail
     /\ \/ req[p].file.size > MAX_FILE_SIZE
        \/ req[p].file.type \notin {"image/jpeg", "image/png", "image/webp"})
      => /\ resp[p].status = 400
         /\ ~loc[p].wrote
         /\ loc[p].newId = 0

\* C17: every JSON response, on success and on every error path, has a
\* success key, and a failure carries its message under the error key;
\* POST /api/admin/login and GET /api/health included.
C17_ResponseEnvelope ==
  \A p \in SeqProcs :
    (pc[p] = "done" /\ resp[p].keys # {}) =>
      /\ "success" \in resp[p].keys
      /\ resp[p].keys \subseteq {"success", "data", "error"}
      /\ ~resp[p].success => ("error" \in resp[p].keys /\ resp[p].error # "")

\* the entry is younger than five minutes at time t
YoungerThanFiveMinutes(entry, t) == t - entry.timestamp < 5 * 60 * 1000

\* C18: fetchWithCache returns the cached response without a network
\* request exactly when forceRefresh is false and the url has an entry
\* younger than 5 minutes, and otherwise issues a request; the cache
\* changes only by a request that completed with an OK status storing its
\* response, and stays as it is on an HTTP error, a network error or a
\* timeout.
C18_FetchWithCache ==
  [][/\ (\A q \in Procs : pc[q] = "done" \/ pc'[q] # "done")
          => apiCache' = apiCache
     /\ \A p \in Procs :
       /\ (pc[p] = "idle" /\ pc'[p] # "idle") =>
            LET entry == apiCache[req'[p].url] IN
            IF /\ ~req'[p].forceRefresh /\ entry.present
               /\ YoungerThanFiveMinutes(entry, clock)
              THEN /\ pc'[p] = "done" /\ resp'[p] = Returned(entry.data)
                   /\ ~loc'[p].fetched
              ELSE pc'[p] = "fc_fetch"
       /\ (pc[p] = "fc_fetch" /\ pc'[p] # "fc_fetch") => loc'[p].fetched
       /\ (pc[p] \in {"fc_fetch", "fc_json"} /\ pc'[p] = "done") =>
            IF loc'[p].fs = "ok"
              THEN /\ resp'[p].success
                   /\ apiCache'[req[p].url].present
                   /\ resp'[p].data = <<apiCache'[req[p].url].data>>
                   /\ \A u \in Urls \ {req[p].url} : apiCache'[u] = apiCache[u]
              ELSE apiCache' = apiCache]_vars

\* C18 witness: a call without forceRefresh was answered from an entry that
\* another call stored half the cache duration earlier, without a request.
C18_Witness ==
  \E p \in Procs :
    /\ pc[p] = "done" /\ req[p].op = "fetchWithCache"
    /\ ~req[p].forceRefresh /\ ~loc[p].fetched
    /\ resp[p].success
    /\ apiCache[req[p].url].present
    /\ clock - apiCache[req[p].url].timestamp = CACHE_DURATION \div 2

\* C18, reached as well: an entry exactly five minutes old was not used.
C18_WitnessExpired ==
  \E p \in Procs :
    /\ pc[p] = "fc_fetch" /\ ~req[p].forceRefresh
    /\ loc[p].cached.present
    /\ loc[p].t - loc[p].cached.timestamp = CACHE_DURATION

\* C19: a main-image upload through POST /api/admin/upload that fails
\* leaves the previous main image intact: each main row that was live
\* before the request is still in the table and live, and its file, if it
\* was there before, is still there.
C19_FailedMainUploadKeepsOldMain ==
  \A p \in SeqProcs :
    (/\ pc[p] = "done" /\ req[p].op = "POST /api/admin/upload"
     /\ req[p].image_type = "main" /\ ~resp[p].success)
      => \A r \in LiveMains(loc[p].before) :
           /\ r \in gallery
           /\ r.filename \in loc[p].had => r.filename \in files

\* C20: no step of a POST /api/gallery request with image_type = main
\* removes the file its new row names, when that file is there.
C20_MainPostKeepsItsFile ==
  [][\A p \in SeqProcs :
       (/\ req[p].op = "POST /api/gallery" /\ req[p].image_type = "main"
        /\ req[p].filename \in files)
         => req[p].filename \in files']_vars

\* some item of a response has image_type = main
HasMain(data) == \E i \in 1..Len(data) : data[i].image_type = "main"

\* data.data.find(img => img.image_type === 'main'): the first main item
\* of a response that has one
FindMain(data) ==
  data[CHOOSE k \in 1..Len(data) :
         /\ data[k].image_type = "main"
         /\ \A j \in 1..(k - 1) : data[j].image_type # "main"]

\* the main row added last: ids are handed out in increasing order
LatestMain(g) == CHOOSE r \in AllMains(g) : \A s \in AllMains(g) : s.id <= r.id

\* a main image was added since the installation was seeded, and the row
\* added last is live
MainAddedAndLive(g) ==
  /\ AllMains(g) # {}
  /\ LatestMain(g).id > Cardinality(SeedRows)
  /\ LatestMain(g).deleted_at = NULL

\* C21: after main-image additions through either endpoint, the first item
\* with image_type = main of a GET /api/gallery response whose query
\* resolved (the one find() selects) is the row the latest main-image
\* addition inserted.
C21_ClientsShowLatestMain ==
  \A p \in SeqProcs :
    (/\ Succeeded(p, "GET /api/gallery") /\ loc[p].fs = "none"
     /\ MainAddedAndLive(gallery))
      => /\ HasMain(resp[p].data)
         /\ FindMain(resp[p].data).id = LatestMain(gallery).id

\* C22: POST /api/admin/upload changes nothing without an admin session:
\* a request whose admin_session cookie is absent or does not start with
\* 'admin_' is answered 401 at once with the table and the files as they
\* were; and a request that is processed (not answered 401) carries a
\* cookie value that a successful POST /api/admin/login issued.
C22_UploadNeedsIssuedSession ==
  [][\A p \in SeqProcs :
       (pc[p] = "idle" /\ req'[p].op = "POST /api/admin/upload") =>
         /\ ~StartsWithAdmin(req'[p].cookie) =>
              /\ pc'[p] = "done" /\ resp'[p].status = 401
              /\ gallery' = gallery /\ files' = files
         /\ resp'[p].status # 401 => req'[p].cookie \in sessions]_vars

\* the gallery row a DELETE /api/gallery request names was soft-deleted
\* by an earlier request
GalleryRowDeleted(p) ==
  /\ req[p].op = "DELETE /api/gallery" /\ ~loc[p].removed
  /\ \E r \in gallery : r.id = req[p].id /\ r.deleted_at # NULL

\* the guestbook row a DELETE /api/guestbook request names was
\* soft-deleted by an earlier request, and the request carries its password
GuestbookRowDeleted(p) ==
  /\ req[p].op = "DELETE /api/guestbook" /\ ~loc[p].removed
  /\ \E r \in guestbook :
       /\ r.id = req[p].id /\ r.deleted_at # NULL
       /\ StoredMatches(req[p].password, r.password)

\* C23: a DELETE /api/gallery?id=X, or a DELETE /api/guestbook?id=X with
\* the correct password, issued after row X was deleted, changes no row
\* (deleted_at keeps the value the first delete set) and, when its SELECT
\* resolves, responds 404.
C23_SecondDeleteIsNotFound ==
  [][\A p \in SeqProcs :
       (GalleryRowDeleted(p) \/ GuestbookRowDeleted(p)) =>
         /\ gallery' = gallery /\ guestbook' = guestbook
         /\ (pc[p] # "done" /\ pc'[p] = "done" /\ ~loc'[p].qfail)
              => resp'[p].status = 404]_vars

\* C23 witness: a second delete of gallery row 3 was answered 404.
C23_Witness ==
  \E p \in SeqProcs :
    /\ pc[p] = "done" /\ GalleryRowDeleted(p) /\ req[p].id = 3
    /\ resp[p].status = 404

\* C23 witness: a second delete of the guestbook entry stored with a
\* hashed password, with that password, was answered 404.
C23_WitnessGuestbook ==
  \E p \in SeqProcs :
    /\ pc[p] = "done" /\ GuestbookRowDeleted(p) /\ req[p].id = 1
    /\ resp[p].status = 404

\* C24: however overlapping fetchWithCache calls on a URL interleave, the
\* cache entry of the URL is never replaced by an older one: the timestamp
\* stored for the URL never decreases.
C24_CacheTimestampNeverDecreases ==
  [][\A u \in Urls :
       apiCache[u].present =>
         /\ apiCache'[u].present
         /\ apiCache'[u].timestamp >= apiCache[u].timestamp]_vars

\* C25: the lazy sections never load forever: in either section the
\* initial fetch is started at most once, and once shouldLoad is true the
\* section (while it stays mounted) reaches hasLoaded = true with
\* loading = false.
C25_SectionsFinishLoading ==
  \A s \in Sections :
    /\ [](section[s].initialFetches <= 1)
    /\ (section[s].mounted /\ section[s].shouldLoad)
         ~> (\/ ~section[s].mounted
             \/ section[s].hasLoaded /\ ~section[s].loading)

\* C26: when a periodic refresh of the gallery section has failed, no
\* refresh interval timer is active until the window receives focus again.
C26_FailedRefreshStopsInterval ==
  \A s \in Sections :
    (section[s].mounted /\ section[s].refreshFailed) => section[s].timers = {}

\* C27: at most one refresh interval timer of the gallery section is
\* active at any time, and none while the window is without focus or after
\* the section unmounted.
C27_RefreshOnlyWhileFocused ==
  \A s \in Sections :
    /\ Cardinality(section[s].timers) <= 1
    /\ ~focused => section[s].timers = {}
    /\ ~section[s].mounted => section[s].timers = {}

\* C27 witness: the window received focus a second time after the first
\* load and one timer, the second, is active.
C27_Witness ==
  /\ section["gallery"].hasLoaded /\ section["gallery"].timerIds = 2
  /\ section["gallery"].timers = {2}

\* C27 witness: a timer was created and the window lost focus.
C27_WitnessBlur ==
  /\ section["gallery"].mounted /\ section["gallery"].timerIds > 0
  /\ ~focused /\ section["gallery"].timers = {}

\* C28: a file is unlinked only after the rows naming it were soft-deleted
\* or deleted: no step of a handler, in any interleaving of two requests,
\* removes a file that a row with deleted_at NULL names.
C28_RowInvalidatedBeforeUnlink ==
  [][\A r \in gallery :
       (r.deleted_at = NULL /\ r.filename \in files) => r.filename \in files']_vars

\* the path is the uploads directory or lies under it
WithinUploads(file) ==
  /\ Len(file) >= Len(uploadsDir)
  /\ SubSeq(file, 1, Len(uploadsDir)) = uploadsDir

\* C29: for every list of path segments, also ones equal to '..', the
\* handler that joins the segments onto the uploads directory answers 404
\* without reading, or reads at a path under the uploads directory.
C29_JoinedPathStaysInsideRoot ==
  \A p \in SeqProcs :
    (pc[p] = "done" /\ req[p].op = "GET uploads (join)") =>
      IF loc[p].read = <<>>
        THEN resp[p].status = 404
        ELSE WithinUploads(loc[p].read)

====
